---------------------------- MODULE Spec2Model ----------------------------
(***************************************************************************)
(* A model of the rexml reader: the span-based grammar-rule parsers of     *)
(* src/src/reader/misc.rs, attr.rs and element.rs, and the byte lexer of   *)
(* src/src/reader/lexer.rs.                                                *)
(*                                                                         *)
(* The input buffer is a sequence of one-character strings.  A cursor is   *)
(* a 0-based offset into it; a span is [offset, len].  Line and column     *)
(* bookkeeping is a function of the offset (LineOf, ColumnOf).             *)
(***************************************************************************)
EXTENDS Integers, Sequences, FiniteSets, TLC

VARIABLES
    input,        \* the borrowed source buffer
    begin,        \* history: the cursor when the parser was called
    pos,          \* ParseContext cursor / XmLexer::offset
    pc,           \* position of the running parser
    out,          \* the parserc::Result (or lexer result) of the parser that ran
    valid,        \* the characters the caller-supplied quote validator accepts
    event,        \* parse_element: `event`
    events,       \* parse_element: `events`
    elem_starts,  \* parse_element: `elem_starts`
    pushes,       \* history: number of elem_starts.push calls
    pops,         \* history: number of elem_starts.pop calls that returned Some
    shape,        \* history: the parts the input text was put together from
    c,            \* parse_doc_type_decl: `c`
    unclosed,     \* XmLexer::next_doc_type: `unclosed`
    lexer_state,  \* XmLexer::state
    span_offset,  \* XmLexer::span.offset
    tokens,       \* history: the tokens next_token has returned
    read_state    \* Reader::state

\* The fields of the lexer and of the reader over it.
ReaderVars == <<lexer_state, span_offset, tokens, read_state>>

vars == <<input, begin, pos, pc, out, valid, event, events, elem_starts, pushes,
          pops, shape, c, unclosed, ReaderVars>>

-----------------------------------------------------------------------------
(* Bounds of the checked input families.                                   *)

MaxQuoteLen == 5
MaxBody == 6
MaxAttrs == 2
MaxChunks == 3
MaxPI == 6
MaxDecl == 5
MaxName == 4
MaxDeclParts == 2
MaxLines == 5
MaxLexChunks == 3
MaxPost == 2
MaxEq == 5
MaxEnc == 3

-----------------------------------------------------------------------------
(* Characters.                                                             *)

None == "EOF"

DQ == "\""
SQ == "'"

Letters ==
    {"a", "b", "c", "d", "e", "g", "i", "l", "m", "n", "o", "p", "r", "s", "t", "v",
     "x", "y"}
Upper == {"A", "C", "D", "E", "L", "M", "O", "P", "T", "X", "Y"}
Digits == {"0", "1"}
NL == "\n"
Spaces == {" ", NL}
Others == {"<", ">", "/", "=", ":", "-", "_", ".", "]", "[", "!", "?", DQ, SQ}
Char == Letters \cup Upper \cup Digits \cup Spaces \cup Others

is_whitespace(ch) == ch \in Spaces
is_alphabetic(ch) == ch \in Letters \cup Upper
is_alphanumeric(ch) == is_alphabetic(ch) \/ ch \in Digits
is_ascii_alphanumeric(ch) == is_alphanumeric(ch)

SeqsUpTo(S, n) == UNION {[1..k -> S] : k \in 0..n}

RECURSIVE Concat(_)
Concat(ss) == IF ss = <<>> THEN <<>> ELSE Head(ss) \o Concat(Tail(ss))

-----------------------------------------------------------------------------
(* Spans.                                                                  *)

Span(o, l) == [offset |-> o, len |-> l]

extend_to(self, other) == Span(self.offset, other.offset - self.offset)

extend_to_inclusive(self, other) ==
    Span(self.offset, other.offset + other.len - self.offset)

as_str(inp, s) == SubSeq(inp, s.offset + 1, s.offset + s.len)

-----------------------------------------------------------------------------
(* The cursor primitives of the parsing toolkit (spec section 4.1).        *)

\* A cursor whose column keeps counting over a line break.
AdvanceNoReset(lc, ch) ==
    IF ch = NL THEN [line |-> lc.line + 1, col |-> lc.col + 1]
    ELSE [line |-> lc.line, col |-> lc.col + 1]

\* The line and column after one more character: the column counts the
\* character, a line break makes it 1 again and counts the line.
Advance(lc, ch) ==
    IF ch = NL THEN [line |-> lc.line + 1, col |-> 1]
    ELSE [line |-> lc.line, col |-> lc.col + 1]

\* The line and column a cursor that started at 1:1 has at offset off; they
\* are the line and column of a span that starts there.
RECURSIVE Position(_, _)
Position(inp, off) ==
    IF off = 0 THEN [line |-> 1, col |-> 1]
    ELSE Advance(Position(inp, off - 1), inp[off])

At(inp, p) == IF p < Len(inp) THEN inp[p + 1] ELSE None

\* ctx.span(): the position of the next character, of length 0 at EOF.
CtxSpan(inp, p) == Span(p, IF p < Len(inp) THEN 1 ELSE 0)

\* ctx.next(): the next character and its position; the cursor moves past it.
CtxNext(inp, p) ==
    [ch |-> At(inp, p), span |-> CtxSpan(inp, p),
     pos |-> IF p < Len(inp) THEN p + 1 ELSE p]

RECURSIVE RunIn(_, _, _)
RunIn(inp, p, S) ==
    IF p < Len(inp) /\ inp[p + 1] \in S THEN 1 + RunIn(inp, p + 1, S) ELSE 0

\* take_while(c in S): the maximal run, none when it is empty.
take_while(inp, p, S) ==
    LET n == RunIn(inp, p, S)
    IN  [some |-> n > 0, span |-> Span(p, n), pos |-> p + n]

RECURSIVE RunOut(_, _, _)
RunOut(inp, p, S) ==
    IF p < Len(inp) /\ inp[p + 1] \notin S THEN 1 + RunOut(inp, p + 1, S) ELSE 0

\* take_till(c in S): the run up to the first character in S or EOF, none
\* when it is empty.
take_till(inp, p, S) ==
    LET n == RunOut(inp, p, S)
    IN  [some |-> n > 0, span |-> Span(p, n), pos |-> p + n]

\* ensure_keyword(kw): all of kw or nothing.
StartsWith(inp, p, kw) ==
    /\ p + Len(kw) <= Len(inp)
    /\ SubSeq(inp, p + 1, p + Len(kw)) = kw

-----------------------------------------------------------------------------
(* parserc::Result: Ok(value) with the cursor, or a Recoverable / Fatal     *)
(* ControlFlow carrying the error kind and its span.                       *)

NoSpan == Span(0, 0)

Ok(span, p) == [tag |-> "Ok", err |-> "none", span |-> span, pos |-> p]
Recoverable(e, span, p) == [tag |-> "Recoverable", err |-> e, span |-> span, pos |-> p]
Fatal(e, span, p) == [tag |-> "Fatal", err |-> e, span |-> span, pos |-> p]

NoResult == [tag |-> "none", err |-> "none", span |-> NoSpan, pos |-> 0]

-----------------------------------------------------------------------------
(* misc.rs: quote(f).  The validator f is the set of characters it accepts. *)

IsQuote(ch) == ch = SQ \/ ch = DQ

\* A quote scanner that takes EOF for a recoverable failure.
QuoteEofRecoverable(span, p) == Recoverable("QuoteSuffix", span, p)

\* misc.rs:53-56: EOF before the closing quote.
QuoteEof(span, p) == Fatal("QuoteSuffix", span, p)

\* misc.rs:51: the validator's error, raised to Fatal.
QuoteInvalid(span, p) == Fatal("Validator", span, p)

\* A quote scanner that keeps the closing quote in the span.
QuoteCloseInclusive(start, span, p) == Ok(extend_to_inclusive(start, span), p)

\* misc.rs:47-49: the closing quote; `span` is its position.
QuoteClose(start, span, p) == Ok(extend_to(start, span), p)

RECURSIVE QuoteLoop(_, _, _, _, _)
QuoteLoop(inp, p, q, start, f) ==
    LET nx == CtxNext(inp, p)
    IN  IF nx.ch = None THEN QuoteEof(nx.span, nx.pos)
        ELSE IF nx.ch = q THEN QuoteClose(start, nx.span, nx.pos)
        ELSE IF nx.ch \notin f THEN QuoteInvalid(nx.span, nx.pos)
        ELSE QuoteLoop(inp, nx.pos, q, start, f)

quote(inp, p, f) ==
    IF IsQuote(At(inp, p))
    THEN QuoteLoop(inp, p + 1, At(inp, p), CtxSpan(inp, p + 1), f)
    ELSE Recoverable("EnsureChar", CtxSpan(inp, p), p)

\* attr.rs:31, doctype.rs:32: the validator |_| Ok(()).
AnyChar == Char

\* doctype.rs:38-52: the PubidLiteral validator.
MATCHES ==
    {"-", SQ, "(", ")", "+", ",", ".", "/", ":", "=", "?", ";", "!", "*", "#", "@",
     "$", "_", "%"}

PubIdChar ==
    {ch \in Char : is_whitespace(ch) \/ is_ascii_alphanumeric(ch) \/ ch \in MATCHES}

-----------------------------------------------------------------------------
(* misc.rs: Comment::parse and CData::parse.                               *)

CommentOpen == <<"<", "!", "-", "-">>
CDataOpen == <<"<", "!", "[", "C", "D", "A", "T", "A", "[">>

\* A comment scanner that ends on any run of dashes before `>`.
CommentEndsAny(inp, dashes) == At(inp, dashes.pos) = ">"

\* misc.rs:94-101: a run of dashes ends the comment when it is longer than one
\* and `>` follows.
CommentEnds(inp, dashes) == dashes.span.len > 1 /\ At(inp, dashes.pos) = ">"

\* misc.rs:99-101: drop the two dashes of `-->`, consume the `>`.
CommentDone(content, p) == Ok(Span(content.offset, content.len - 2), p + 1)

RECURSIVE CommentLoop(_, _, _)
CommentLoop(inp, p, content) ==
    LET chars == take_till(inp, p, {"-"})
        c1 == IF chars.some THEN extend_to_inclusive(content, chars.span) ELSE content
        dashes == take_while(inp, chars.pos, {"-"})
        c2 == extend_to_inclusive(c1, dashes.span)
    IN  IF ~dashes.some
        THEN Fatal("CommentSuffix", CtxSpan(inp, chars.pos), chars.pos)
        ELSE IF CommentEnds(inp, dashes) THEN CommentDone(c2, dashes.pos)
        ELSE CommentLoop(inp, dashes.pos, c2)

\* A comment parser that is committed before `<!--` has matched.
Comment_parseCommitted(inp, p) ==
    IF StartsWith(inp, p, CommentOpen)
    THEN CommentLoop(inp, p + Len(CommentOpen), Span(p + Len(CommentOpen), 0))
    ELSE Fatal("CommentPrefix", CtxSpan(inp, p), p)

Comment_parse(inp, p) ==
    IF StartsWith(inp, p, CommentOpen)
    THEN CommentLoop(inp, p + Len(CommentOpen), Span(p + Len(CommentOpen), 0))
    ELSE Recoverable("CommentPrefix", CtxSpan(inp, p), p)

\* A CDATA scanner that ends on any run of `]` before `>`.
CDataEndsAny(inp, chars) == At(inp, chars.pos) = ">"

\* misc.rs:164-173: a run of `]` ends the section when it is longer than one
\* and `>` follows.
CDataEnds(inp, chars) == chars.span.len > 1 /\ At(inp, chars.pos) = ">"

\* misc.rs:170-173.
CDataDone(content, p) == Ok(Span(content.offset, content.len - 2), p + 1)

RECURSIVE CDataLoop(_, _, _)
CDataLoop(inp, p, content) ==
    LET chars == take_till(inp, p, {"]"})
        c1 == IF chars.some THEN extend_to_inclusive(content, chars.span) ELSE content
        brackets == take_while(inp, chars.pos, {"]"})
        c2 == extend_to_inclusive(c1, brackets.span)
    IN  IF ~brackets.some
        THEN Fatal("CDataSuffix", CtxSpan(inp, chars.pos), chars.pos)
        ELSE IF CDataEnds(inp, brackets) THEN CDataDone(c2, brackets.pos)
        ELSE CDataLoop(inp, brackets.pos, c2)

CData_parse(inp, p) ==
    IF StartsWith(inp, p, CDataOpen)
    THEN CDataLoop(inp, p + Len(CDataOpen), Span(p + Len(CDataOpen), 0))
    ELSE Recoverable("CDataPrefix", CtxSpan(inp, p), p)

-----------------------------------------------------------------------------
(* lexer.rs: XmLexer, offsets counted from the start of its input.  A      *)
(* lexer result is Ok(Some(token)) ("Ok"), Ok(None) ("OkNone") or Err.      *)

LexNone(p) == [tag |-> "OkNone", err |-> "none", span |-> NoSpan, pos |-> p]
LexErr(e, span, p) == [tag |-> "Err", err |-> e, span |-> span, pos |-> p]

\* XmLexer::next_span
next_span(inp, off) == Span(off, IF Len(inp) - off > 0 THEN 1 ELSE 0)

\* lexer.rs:357-361: the closing quote was just consumed.
QuoteStrClose(inp, off, start) ==
    LET end == Span(next_span(inp, off).offset - 1, next_span(inp, off).len)
    IN  Ok(extend_to(start, end), off)

RECURSIVE QuoteStrLoop(_, _, _, _)
QuoteStrLoop(inp, off, q, start) ==
    IF off >= Len(inp)
    THEN LexErr("QuoteStr", extend_to(start, next_span(inp, off)), off)
    ELSE IF inp[off + 1] = q THEN QuoteStrClose(inp, off + 1, start)
    ELSE QuoteStrLoop(inp, off + 1, q, start)

\* The caller (next_token) has peeked a quote character at the cursor.
next_quote_str(inp, off) ==
    QuoteStrLoop(inp, off + 1, inp[off + 1], Span(off + 1, 0))

\* lexer.rs:326-334: a character other than `-` was just consumed after the
\* run of dashes that starts at `m`; off is the cursor after it.
CommentMarkers(inp, off, m, ch, start) ==
    LET markers == extend_to(Span(m, 1), next_span(inp, off))
    IN  [ends |-> markers.len > 2 /\ ch = ">",
         token |-> extend_to_inclusive(start, Span(markers.offset, markers.len - 3))]

RECURSIVE CommentOuter(_, _, _), CommentInner(_, _, _, _)
CommentOuter(inp, off, start) ==
    IF off >= Len(inp) THEN LexErr("Comment", start, off)
    ELSE IF inp[off + 1] = "-" THEN CommentInner(inp, off + 1, off, start)
    ELSE CommentOuter(inp, off + 1, start)

CommentInner(inp, off, m, start) ==
    IF off >= Len(inp) THEN CommentOuter(inp, off, start)
    ELSE IF inp[off + 1] # "-"
         THEN LET r == CommentMarkers(inp, off + 1, m, inp[off + 1], start)
              IN  IF r.ends THEN Ok(r.token, off + 1)
                  ELSE CommentOuter(inp, off + 1, start)
         ELSE CommentInner(inp, off + 1, m, start)

next_comment(inp, off) ==
    IF ~StartsWith(inp, off, CommentOpen) THEN LexNone(off)
    ELSE CommentOuter(inp, off + Len(CommentOpen), Span(off + Len(CommentOpen), 0))

\* lexer.rs:280-288.
CDataMarkers(inp, off, m, ch, start) ==
    LET markers == extend_to(Span(m, 1), next_span(inp, off))
    IN  [ends |-> markers.len > 2 /\ ch = ">",
         token |-> extend_to_inclusive(start, Span(markers.offset, markers.len - 3))]

RECURSIVE CDataOuter(_, _, _), CDataInner(_, _, _, _)
CDataOuter(inp, off, start) ==
    IF off >= Len(inp) THEN LexErr("CData", start, off)
    ELSE IF inp[off + 1] = "]" THEN CDataInner(inp, off + 1, off, start)
    ELSE CDataOuter(inp, off + 1, start)

CDataInner(inp, off, m, start) ==
    IF off >= Len(inp) THEN CDataOuter(inp, off, start)
    ELSE IF inp[off + 1] # "]"
         THEN LET r == CDataMarkers(inp, off + 1, m, inp[off + 1], start)
              IN  IF r.ends THEN Ok(r.token, off + 1)
                  ELSE CDataOuter(inp, off + 1, start)
         ELSE CDataInner(inp, off + 1, m, start)

next_cdata(inp, off) ==
    IF ~StartsWith(inp, off, CDataOpen) THEN LexNone(off)
    ELSE CDataOuter(inp, off + Len(CDataOpen), Span(off + Len(CDataOpen), 0))

\* utils.rs:9-17: is_ws and is_markup_char, on bytes.
is_ws(ch) == ch \in Spaces
is_markup_char(ch) == ch \in {"<", ">", "/", "?", SQ, DQ}

\* lexer.rs:212-224: the first byte was read at `off`; the rest of the name.
NameRest(inp, off) == take_till(inp, off + 1, {ch \in Char : is_ws(ch) \/ is_markup_char(ch) \/ ch = "="})

\* lexer.rs:204-225: XmLexer::next_name.  `self.next().expect(..)` panics at
\* the end of the input.
next_name(inp, off) ==
    IF off >= Len(inp) THEN [tag |-> "Panic", err |-> "expect", span |-> NoSpan, pos |-> off]
    ELSE IF is_ws(inp[off + 1]) \/ is_markup_char(inp[off + 1]) \/ inp[off + 1] \in {"-", ".", "="}
    THEN LexErr("Name", Span(off, 0), off + 1)
    ELSE Ok(extend_to(Span(off, 0), next_span(inp, NameRest(inp, off).pos)),
            NameRest(inp, off).pos)

\* The result r of a scanner as the result of next_token: the kind of the
\* token and the mode the lexer is left in.
Token(kind, r, st) ==
    [tag |-> r.tag, err |-> r.err, span |-> r.span, pos |-> r.pos,
     kind |-> IF r.tag = "Ok" THEN kind ELSE "none", state |-> st]

\* A two-byte token with a span of three bytes.
TwoBytesWide(inp, off) == Ok(Span(off, 3), off + 2)

\* lexer.rs:418-488: a two-byte token at the cursor, as next_pi_start,
\* next_pi_end, next_element_close_start_tag and next_empty_tag read it.
TwoBytes(inp, off) == Ok(Span(off, 2), off + 2)

\* lexer.rs:616-619, 623-627, 629-633: a one-byte token.
OneByte(inp, off) == Ok(next_span(inp, off), off + 1)

\* lexer.rs:228-251: next_chardata.
next_chardata(inp, off) ==
    IF take_till(inp, off, {"<"}).some
    THEN Ok(take_till(inp, off, {"<"}).span, take_till(inp, off, {"<"}).pos)
    ELSE LexNone(off)

\* lexer.rs:179-200: next_ws.
next_ws(inp, off) ==
    IF take_while(inp, off, {ch \in Char : is_ws(ch)}).some
    THEN Ok(take_while(inp, off, {ch \in Char : is_ws(ch)}).span,
            take_while(inp, off, {ch \in Char : is_ws(ch)}).pos)
    ELSE LexNone(off)

\* A lexer that returns a name of no bytes where no name starts.
MarkupOtherEmptyName(inp, off) ==
    IF next_ws(inp, off).tag = "Ok" THEN Token("WS", next_ws(inp, off), "Markup")
    ELSE IF next_name(inp, off).tag = "Ok"
    THEN Token("Name", next_name(inp, off), "Markup")
    ELSE Token("Name", Ok(Span(off, 0), off), "Markup")

\* lexer.rs:634-640: whitespace, or else a name.
MarkupOther(inp, off) ==
    IF next_ws(inp, off).tag = "Ok" THEN Token("WS", next_ws(inp, off), "Markup")
    ELSE Token("Name", next_name(inp, off), "Markup")

\* A lexer that stays in Markup mode after a comment.
MarkupOpenStays(inp, off) ==
    IF next_cdata(inp, off).tag # "OkNone"
    THEN Token("CData", next_cdata(inp, off),
               IF next_cdata(inp, off).tag = "Ok" THEN "CharData" ELSE "Markup")
    ELSE IF next_comment(inp, off).tag # "OkNone"
    THEN Token("Comment", next_comment(inp, off), "Markup")
    ELSE IF StartsWith(inp, off, <<"<", "?">>)
    THEN Token("PIStart", TwoBytes(inp, off), "Markup")
    ELSE IF StartsWith(inp, off, <<"<", "/">>)
    THEN Token("ElementCloseStartTag", TwoBytes(inp, off), "Markup")
    ELSE Token("ElementOpenStartTag", OneByte(inp, off), "Markup")

\* lexer.rs:599-620: the cursor is at `<`.
MarkupOpen(inp, off) ==
    IF next_cdata(inp, off).tag # "OkNone"
    THEN Token("CData", next_cdata(inp, off),
               IF next_cdata(inp, off).tag = "Ok" THEN "CharData" ELSE "Markup")
    ELSE IF next_comment(inp, off).tag # "OkNone"
    THEN Token("Comment", next_comment(inp, off),
               IF next_comment(inp, off).tag = "Ok" THEN "CharData" ELSE "Markup")
    ELSE IF StartsWith(inp, off, <<"<", "?">>)
    THEN Token("PIStart", TwoBytes(inp, off), "Markup")
    ELSE IF StartsWith(inp, off, <<"<", "/">>)
    THEN Token("ElementCloseStartTag", TwoBytes(inp, off), "Markup")
    ELSE Token("ElementOpenStartTag", OneByte(inp, off), "Markup")

\* lexer.rs:598-645: next_token in Markup mode.
Markup(inp, off) ==
    IF off >= Len(inp) THEN Token("none", LexNone(off), "Markup")
    ELSE IF inp[off + 1] = "<" THEN MarkupOpen(inp, off)
    ELSE IF inp[off + 1] = "?"
    THEN Token("PIEnd",
               IF StartsWith(inp, off, <<"?", ">">>) THEN TwoBytes(inp, off)
               ELSE LexErr("PIEnd", next_span(inp, off), off), "Markup")
    ELSE IF inp[off + 1] = "/"
    THEN Token("EmptyTag",
               IF StartsWith(inp, off, <<"/", ">">>) THEN TwoBytes(inp, off)
               ELSE LexErr("EmptyTag", next_span(inp, off), off), "Markup")
    ELSE IF inp[off + 1] = "=" THEN Token("Eq", OneByte(inp, off), "Markup")
    ELSE IF IsQuote(inp[off + 1]) THEN Token("QuoteStr", next_quote_str(inp, off), "Markup")
    ELSE IF inp[off + 1] = ">" THEN Token("EndTag", OneByte(inp, off), "Markup")
    ELSE MarkupOther(inp, off)

\* lexer.rs:595-653: next_token.  In CharData mode next_chardata leaves the
\* lexer in Markup mode and the loop goes round when it found nothing.
next_token(inp, off, st) ==
    IF st = "CharData" /\ next_chardata(inp, off).tag = "Ok"
    THEN Token("CharData", next_chardata(inp, off), "Markup")
    ELSE Markup(inp, off)

\* lexer.rs:580-591: next_span adds span.offset to the cursor and seek takes
\* it off again; the spans a lexer over a fragment returns are absolute.
Based(r, base) == [r EXCEPT !.span = Span(r.span.offset + base, r.span.len)]

-----------------------------------------------------------------------------
(* reader/reader.rs: Reader, a pull reader over XmLexer.  `peek` is None    *)
(* from Reader::new on (nothing assigns it), so Reader::next_token is the   *)
(* lexer's.  A result is Ok(Some(..)) or Ok(()) ("Ok"), Ok(None)            *)
(* ("OkNone"), Err(ReadError) ("Err") or a panic ("Panic"); `state` is the  *)
(* mode the lexer is left in.                                               *)

Rd(tag, err, kind, expect, span, p, lst) ==
    [tag |-> tag, err |-> err, kind |-> kind, expect |-> expect, span |-> span,
     pos |-> p, state |-> lst]

\* todo!()
Todo(p, lst) == Rd("Panic", "todo", "none", "none", NoSpan, p, lst)

\* XmLexer::fragement: the text a span covers.
fragement(inp, span) == SubSeq(inp, span.offset + 1, span.offset + span.len)

\* reader.rs:150-168: the match of expect_token on the result r of
\* next_token, with a closure that takes tokens of the kind `want`.
Expected(inp, r, kind, expect, want) ==
    IF r.tag = "Err" THEN Rd("Err", "Tokenizer", kind, r.err, r.span, r.pos, r.state)
    ELSE IF r.tag = "Ok" /\ r.kind = want
    THEN Rd("Ok", "none", kind, "none", r.span, r.pos, r.state)
    ELSE Rd("Err", "Expect", kind, expect, next_span(inp, r.pos), r.pos, r.state)

\* reader.rs:146-169: expect_token.
expect_token(inp, off, lst, kind, expect, want) ==
    Expected(inp, next_token(inp, off, lst), kind, expect, want)

\* reader.rs:107-127: the match of expect_keyword on the result r of
\* next_token.
ExpectedKeyword(inp, r, kw, kind, expect) ==
    IF r.tag = "Err" THEN Rd("Err", "Tokenizer", kind, r.err, r.span, r.pos, r.state)
    ELSE IF r.tag = "Ok" /\ r.kind = "Name" /\ fragement(inp, r.span) = kw
    THEN Rd("Ok", "none", kind, "none", r.span, r.pos, r.state)
    ELSE Rd("Err", "Expect", kind, expect, next_span(inp, r.pos), r.pos, r.state)

\* reader.rs:101-128: expect_keyword.
expect_keyword(inp, off, lst, kw, kind, expect) ==
    ExpectedKeyword(inp, next_token(inp, off, lst), kw, kind, expect)

\* reader.rs:130-144: exepct_ws.
exepct_ws(inp, off, lst, kind) == expect_token(inp, off, lst, kind, "WS", "WS")

\* reader.rs:171-225: expect_eq; r is the result of next_token and st the
\* EqState.  The token after the `=` is read and dropped.
RECURSIVE EqLoop(_, _, _, _)
EqLoop(inp, r, kind, st) ==
    IF r.tag = "Err" THEN Rd("Err", "Tokenizer", kind, r.err, r.span, r.pos, r.state)
    ELSE IF r.tag = "Ok" /\ r.kind = "WS"
    THEN IF st = "BeforeEq" THEN EqLoop(inp, next_token(inp, r.pos, r.state), kind, "Eq")
         ELSE IF st = "AfterEq"
         THEN Rd("Ok", "none", kind, "none", r.span, r.pos, r.state)
         ELSE Rd("Err", "Expect", kind, "Eq", r.span, r.pos, r.state)
    ELSE IF r.tag = "Ok" /\ r.kind = "Eq"
    THEN EqLoop(inp, next_token(inp, r.pos, r.state), kind, "AfterEq")
    ELSE IF st = "AfterEq"
    THEN Rd("Ok", "none", kind, "none", r.span, r.pos, r.state)
    ELSE IF r.tag = "Ok"
    THEN Rd("Err", "Expect", kind, "Eq", r.span, r.pos, r.state)
    ELSE Rd("Err", "Expect", kind, "Eq", next_span(inp, r.pos), r.pos, r.state)

expect_eq(inp, off, lst, kind) == EqLoop(inp, next_token(inp, off, lst), kind, "BeforeEq")

\* reader.rs:244-252: the version string has been read (r); todo!().
XmlDeclVersion(inp, r) == IF r.tag # "Ok" THEN r ELSE Todo(r.pos, r.state)

\* reader.rs:242-250: after expect_eq (r), the quoted version.
XmlDeclEq(inp, r) ==
    IF r.tag # "Ok" THEN r
    ELSE XmlDeclVersion(inp, expect_token(inp, r.pos, r.state, "XmlDecl", "PIStart", "QuoteStr"))

\* reader.rs:240-242: after the keyword `version` (r).
XmlDeclKeyword(inp, r) ==
    IF r.tag # "Ok" THEN r ELSE XmlDeclEq(inp, expect_eq(inp, r.pos, r.state, "XmlDecl"))

\* reader.rs:238-240: after the whitespace (r).
XmlDeclWS(inp, r) ==
    IF r.tag # "Ok" THEN r
    ELSE XmlDeclKeyword(inp, expect_keyword(inp, r.pos, r.state,
                                            <<"v", "e", "r", "s", "i", "o", "n">>,
                                            "XmlDecl", "ResrvedVersion"))

\* reader.rs:236-238: after the keyword `xml` (r).
XmlDeclXml(inp, r) ==
    IF r.tag # "Ok" THEN r ELSE XmlDeclWS(inp, exepct_ws(inp, r.pos, r.state, "WS"))

\* reader.rs:228-236: after `<?` (r).
XmlDeclStart(inp, r) ==
    IF r.tag # "Ok" THEN r
    ELSE XmlDeclXml(inp, expect_keyword(inp, r.pos, r.state, <<"x", "m", "l">>,
                                        "XmlDecl", "ResrvedXml"))

\* reader.rs:227-253: next_xmldecl, which ends in todo!().
next_xmldecl(inp, off, lst) ==
    XmlDeclStart(inp, expect_token(inp, off, lst, "XmlDecl", "PIStart", "PIStart"))

\* reader.rs:255-257
next_misc(inp, off, lst) == Todo(off, lst)

\* reader.rs:259-261
next_root_element(inp, off, lst) == Todo(off, lst)

\* reader.rs:263-265
next_element(inp, off, lst) == Todo(off, lst)

\* A reader that starts over after Ok(None).
NodeRestarts(r, st) ==
    [tag |-> r.tag, err |-> r.err, kind |-> r.kind, expect |-> r.expect, span |-> r.span,
     pos |-> r.pos, state |-> r.state,
     read_state |-> IF r.tag = "OkNone" THEN "XmlDecl" ELSE st]

\* The result r of a call of next_node that leaves the reader in state st.
Node(r, st) ==
    [tag |-> r.tag, err |-> r.err, kind |-> r.kind, expect |-> r.expect, span |-> r.span,
     pos |-> r.pos, state |-> r.state, read_state |-> st]

\* reader.rs:282-307: next_node; the loop goes round after a next_misc that
\* returned Ok(None).
next_node(inp, off, lst, st) ==
    CASE st = "XmlDecl" -> Node(next_xmldecl(inp, off, lst), st)
      [] st = "MiscBeforeElement" ->
            IF next_misc(inp, off, lst).tag # "OkNone"
            THEN Node(next_misc(inp, off, lst), st)
            ELSE Node(next_root_element(inp, next_misc(inp, off, lst).pos,
                                        next_misc(inp, off, lst).state), "RootElement")
      [] st = "RootElement" -> Node(next_root_element(inp, off, lst), st)
      [] st = "Element" -> Node(next_element(inp, off, lst), st)
      [] st = "MiscAfterElement" ->
            IF next_misc(inp, off, lst).tag # "OkNone"
            THEN Node(next_misc(inp, off, lst), st)
            ELSE Node(Rd("OkNone", "none", "none", "none", NoSpan,
                         next_misc(inp, off, lst).pos, next_misc(inp, off, lst).state), "Eof")
      [] st = "Eof" -> Node(Rd("OkNone", "none", "none", "none", NoSpan, off, lst), st)

-----------------------------------------------------------------------------
(* Names.  An Option<Span> is the empty sequence or a one-element one.      *)

NoName == [prefix |-> <<>>, local_name |-> NoSpan]

\* A parser result carrying a value beside the span: a Name, an event.
OkVal(v, span, p) == [tag |-> "Ok", err |-> "none", span |-> span, pos |-> p, val |-> v]
ErrVal(r) == [tag |-> r.tag, err |-> r.err, span |-> r.span, pos |-> r.pos, val |-> NoName]

NameStartChar(ch) == ch = "_" \/ is_alphabetic(ch)
NameChars == {ch \in Char : ch \in {"_", "-", "."} \/ is_alphanumeric(ch)}

\* A name parser whose local_name starts at the colon.
Name_parseColon(inp, p) ==
    IF ~NameStartChar(At(inp, p))
    THEN ErrVal(Recoverable("EnsureCharIf", CtxSpan(inp, p), p))
    ELSE LET first == take_while(inp, p, NameChars)
             local == take_while(inp, first.pos + 1, NameChars)
         IN  IF At(inp, first.pos) # ":"
             THEN OkVal([prefix |-> <<>>, local_name |-> first.span],
                        first.span, first.pos)
             ELSE IF ~local.some \/ ~NameStartChar(At(inp, first.pos + 1))
             THEN ErrVal(Fatal("LocalName", CtxSpan(inp, first.pos + 1), first.pos + 1))
             ELSE OkVal([prefix |-> <<first.span>>,
                         local_name |-> extend_to_inclusive(Span(first.pos, 1), local.span)],
                        extend_to_inclusive(first.span, local.span), local.pos)

\* Name with an optional namespace prefix (reader/events.rs:7-12), parsed as
\* spec section 4.2 describes.
Name_parse(inp, p) ==
    IF ~NameStartChar(At(inp, p))
    THEN ErrVal(Recoverable("EnsureCharIf", CtxSpan(inp, p), p))
    ELSE LET first == take_while(inp, p, NameChars)
             local == take_while(inp, first.pos + 1, NameChars)
         IN  IF At(inp, first.pos) # ":"
             THEN OkVal([prefix |-> <<>>, local_name |-> first.span],
                        first.span, first.pos)
             ELSE IF ~local.some \/ ~NameStartChar(At(inp, first.pos + 1))
             THEN ErrVal(Fatal("LocalName", CtxSpan(inp, first.pos + 1), first.pos + 1))
             ELSE OkVal([prefix |-> <<first.span>>, local_name |-> local.span],
                        extend_to_inclusive(first.span, local.span), local.pos)

\* misc.rs:115-135: the single-span Name (the PI target).
Name1_parse(inp, p) ==
    IF ~(At(inp, p) = ":" \/ NameStartChar(At(inp, p)))
    THEN Recoverable("EnsureCharIf", CtxSpan(inp, p), p)
    ELSE LET suffix == take_while(inp, p + 1, NameChars \cup {":"})
         IN  IF suffix.some
             THEN Ok(extend_to_inclusive(Span(p, 1), suffix.span), suffix.pos)
             ELSE Ok(Span(p, 1), p + 1)

\* WS::into_parser().ok(): the cursor after optional whitespace.
SkipWS(inp, p) == take_while(inp, p, Spaces).pos

\* misc.rs:8-20: WS::parse
WS_parse(inp, p) ==
    LET r == take_while(inp, p, Spaces)
    IN  IF r.some THEN Ok(r.span, r.pos) ELSE Recoverable("WS", CtxSpan(inp, p), p)

\* misc.rs:22-27
parse_eq(inp, p) ==
    LET q == SkipWS(inp, p)
    IN  IF At(inp, q) = "="
        THEN Ok(Span(q, 1), SkipWS(inp, q + 1))
        ELSE Recoverable("EnsureChar", CtxSpan(inp, q), q)

\* attr.rs:22-36.  The value of an attribute result is [name, value].
\* An attribute parser whose value span runs over the two quotes.
AttrValueQuoted(inp, name, eq, value) ==
    IF value.tag # "Ok"
    THEN ErrVal(Fatal("AttrQuote", CtxSpan(inp, eq.pos), value.pos))
    ELSE OkVal([name |-> name.val,
                value |-> Span(value.span.offset - 1, value.span.len + 2)],
               value.span, value.pos)

\* attr.rs:31-35: the quoted value.
AttrValue(inp, name, eq, value) ==
    IF value.tag # "Ok"
    THEN ErrVal(Fatal("AttrQuote", CtxSpan(inp, eq.pos), value.pos))
    ELSE OkVal([name |-> name.val, value |-> value.span], value.span, value.pos)

\* attr.rs:27-29: the `=`.
AttrEq(inp, name, eq) ==
    IF eq.tag # "Ok"
    THEN ErrVal(Fatal("AttrEq", CtxSpan(inp, name.pos), eq.pos))
    ELSE AttrValue(inp, name, eq, quote(inp, eq.pos, AnyChar))

\* attr.rs:25: the name.
AttrName(inp, name) ==
    IF name.tag # "Ok" THEN name ELSE AttrEq(inp, name, parse_eq(inp, name.pos))

parse_attr(inp, p) == AttrName(inp, Name_parse(inp, SkipWS(inp, p)))

-----------------------------------------------------------------------------
(* element.rs: start tags, end tags and content.                           *)

Event(k, name, attrs, span, unparsed) ==
    [kind |-> k, name |-> name, attrs |-> attrs, span |-> span, unparsed |-> unparsed]

\* element.rs:25-29: what follows an attribute before the next one is tried.
AfterAttr(inp, p) == SkipWS(inp, p)

\* element.rs:23-29: the attribute loop; its value is the list of attributes.
RECURSIVE AttrLoop(_, _, _, _)
AttrLoop(inp, p, attrs, attr) ==
    IF attr.tag = "Fatal" THEN attr
    ELSE IF attr.tag = "Recoverable" THEN OkVal(attrs, NoSpan, p)
    ELSE AttrLoop(inp, AfterAttr(inp, attr.pos), Append(attrs, attr.val),
                  parse_attr(inp, AfterAttr(inp, attr.pos)))

\* A tag parser that takes `/` alone for the end of an empty element.
TagEndSlash(inp, p, name, attrs) ==
    LET q == SkipWS(inp, p)
    IN  IF StartsWith(inp, q, <<">">>)
        THEN OkVal(Event("ElementStart", name, attrs, NoSpan, <<>>), NoSpan, q + 1)
        ELSE IF StartsWith(inp, q, <<"/">>)
        THEN OkVal(Event("EmptyElement", name, attrs, NoSpan, <<>>), NoSpan, q + 2)
        ELSE ErrVal(Fatal("ElementSuffix", CtxSpan(inp, q), q))

\* element.rs:31-44: the end of a start tag.
TagEnd(inp, p, name, attrs) ==
    LET q == SkipWS(inp, p)
    IN  IF StartsWith(inp, q, <<">">>)
        THEN OkVal(Event("ElementStart", name, attrs, NoSpan, <<>>), NoSpan, q + 1)
        ELSE IF StartsWith(inp, q, <<"/", ">">>)
        THEN OkVal(Event("EmptyElement", name, attrs, NoSpan, <<>>), NoSpan, q + 2)
        ELSE ErrVal(Fatal("ElementSuffix", CtxSpan(inp, q), q))

\* element.rs:23-44: the attributes, then the end of the tag.
TagAttrs(inp, name, attrs) ==
    IF attrs.tag # "Ok" THEN attrs ELSE TagEnd(inp, attrs.pos, name.val, attrs.val)

\* element.rs:19-21: the name and the whitespace after it.
TagName(inp, name) ==
    IF name.tag # "Ok" THEN name
    ELSE TagAttrs(inp, name,
                  AttrLoop(inp, SkipWS(inp, name.pos), <<>>,
                           parse_attr(inp, SkipWS(inp, name.pos))))

\* element.rs:11-45
parse_element_empty_or_start(inp, p) ==
    IF At(inp, p) # "<" THEN ErrVal(Recoverable("ElementPrefix", CtxSpan(inp, p), p))
    ELSE TagName(inp, Name_parse(inp, p + 1))

\* element.rs:47-64
\* element.rs:53-63: the name, optional whitespace (ending at q) and `>`.
EndName(inp, p, name, q) ==
    IF name.tag # "Ok" THEN ErrVal(Fatal("ElementName", CtxSpan(inp, p), name.pos))
    ELSE IF At(inp, q) # ">" THEN ErrVal(Recoverable("ElementSuffix", CtxSpan(inp, p), q))
    ELSE OkVal(Event("ElementEnd", name.val, <<>>, NoSpan, <<>>), NoSpan, q + 1)

\* element.rs:47-64
parse_element_end(inp, p) ==
    IF ~StartsWith(inp, p, <<"<", "/">>)
    THEN ErrVal(Recoverable("ElementPrefix", CtxSpan(inp, p), p))
    ELSE EndName(inp, p, Name_parse(inp, p + 2), SkipWS(inp, Name_parse(inp, p + 2).pos))

\* A parser of character data that takes the `<` as well.
CharData_parseInclusive(inp, p) ==
    LET r == take_till(inp, p, {"<"})
    IN  IF r.some THEN Ok(Span(p, r.span.len + 1), r.pos)
        ELSE Recoverable("CharData", CtxSpan(inp, p), p)

\* misc.rs:188-204: CharData::parse
CharData_parse(inp, p) ==
    LET r == take_till(inp, p, {"<"})
    IN  IF r.some THEN Ok(r.span, r.pos) ELSE Recoverable("CharData", CtxSpan(inp, p), p)

\* A comparison of the target that tells the letter cases apart.
to_lowercaseNone(ch) == ch

\* misc.rs:225: to_lowercase on the letters of the reserved word.
to_lowercase(ch) ==
    CASE ch = "X" -> "x" [] ch = "M" -> "m" [] ch = "L" -> "l" [] OTHER -> ch

lowercase(s) == [i \in 1..Len(s) |-> to_lowercase(s[i])]

\* misc.rs:236-260: the body loop.  `take_while(..).expect(..)` panics when a
\* run of body characters is not followed by `?`.
RECURSIVE PIBody(_, _, _)
PIBody(inp, p, content) ==
    LET chars == take_till(inp, p, {"?"})
        qmarks == take_while(inp, chars.pos, {"?"})
        c2 == extend_to_inclusive(content, qmarks.span)
    IN  IF ~chars.some THEN [tag |-> "exit", content |-> content, pos |-> p]
        ELSE IF ~qmarks.some THEN [tag |-> "Panic", content |-> content, pos |-> chars.pos]
        ELSE IF At(inp, qmarks.pos) = ">"
        THEN [tag |-> "Ok", content |-> Span(c2.offset, c2.len - 1), pos |-> qmarks.pos + 1]
        ELSE PIBody(inp, qmarks.pos, c2)

\* misc.rs:267-274: the PI without a body.
PIClose(inp, p, start, target) ==
    IF StartsWith(inp, p, <<"?", ">">>)
    THEN OkVal(<<>>, target, p + 2)
    ELSE [tag |-> "Recoverable", err |-> "PISuffix", span |-> start, pos |-> p, val |-> <<>>]

\* misc.rs:206-276: PI::parse.  The value of the result is `unparsed`.
PIErr(tag, e, span, q) == [tag |-> tag, err |-> e, span |-> span, pos |-> q, val |-> <<>>]

\* A body loop whose empty body is no error.
PIAfterBodyLenient(inp, start, target, body) ==
    IF body.tag = "Panic" THEN PIErr("Panic", "expect", NoSpan, body.pos)
    ELSE IF body.tag = "Ok" THEN OkVal(<<body.content>>, target.span, body.pos)
    ELSE PIClose(inp, body.pos, start, target.span)

\* misc.rs:236-265: the outcome of the body loop.
PIAfterBody(inp, start, target, body) ==
    IF body.tag = "Panic" THEN PIErr("Panic", "expect", NoSpan, body.pos)
    ELSE IF body.tag = "Ok" THEN OkVal(<<body.content>>, target.span, body.pos)
    ELSE IF body.content.len = 0 THEN PIErr("Fatal", "PIBody", body.content, body.pos)
    ELSE PIClose(inp, body.pos, start, target.span)

\* misc.rs:232-234: whitespace after the target starts a body.
PIAfterTarget(inp, start, target, ws) ==
    IF ws.tag # "Ok" THEN PIClose(inp, target.pos, start, target.span)
    ELSE PIAfterBody(inp, start, target, PIBody(inp, ws.pos, Span(ws.pos, 0)))

\* misc.rs:220-230: the target and the reserved word.
PITarget(inp, p, start, target) ==
    IF target.tag # "Ok"
    THEN PIErr("Recoverable", "PITarget", CtxSpan(inp, p + 2), p + 2)
    ELSE IF lowercase(as_str(inp, target.span)) = <<"x", "m", "l">>
    THEN PIErr("Fatal", "Reserved", target.span, target.pos)
    ELSE PIAfterTarget(inp, start, target, WS_parse(inp, target.pos))

\* misc.rs:206-276: PI::parse.  The value of the result is `unparsed`.
PI_parse(inp, p) ==
    IF ~StartsWith(inp, p, <<"<", "?">>)
    THEN PIErr("Recoverable", "PIPrefix", CtxSpan(inp, p), p)
    ELSE PITarget(inp, p, CtxSpan(inp, p), Name1_parse(inp, p + 2))

\* ParserExt::or: the second parser runs, from the same cursor, when the first
\* fails Recoverable.
Or(a, b) == IF a.tag = "Recoverable" THEN b ELSE a

AsEvent(k, r) ==
    IF r.tag = "Ok"
    THEN OkVal(Event(k, NoName, <<>>, r.span, <<>>), r.span, r.pos)
    ELSE ErrVal(r)

PIEvent(r) ==
    IF r.tag = "Ok"
    THEN OkVal(Event("PI", [prefix |-> <<>>, local_name |-> r.span], <<>>, r.span, r.val),
               r.span, r.pos)
    ELSE ErrVal(r)

\* An alternation that goes on from where the failed parser stopped.
RewindNot(r, p) == r.pos

\* ParserExt::or: after the Recoverable failure r of a parser that started
\* at p, the cursor is p again.
Rewind(r, p) == p

\* element.rs:72: Comment, the last alternative.
ContentComment(inp, p, r) ==
    Or(r, AsEvent("Comment", Comment_parse(inp, Rewind(r, p))))

\* element.rs:71: PI
ContentPI(inp, p, r) ==
    Or(r, ContentComment(inp, p, PIEvent(PI_parse(inp, Rewind(r, p)))))

\* element.rs:70: CData
ContentCData(inp, p, r) ==
    Or(r, ContentPI(inp, p, AsEvent("CData", CData_parse(inp, Rewind(r, p)))))

\* element.rs:69: CharData
ContentCharData(inp, p, r) ==
    Or(r, ContentCData(inp, p, AsEvent("CharData", CharData_parse(inp, Rewind(r, p)))))

\* element.rs:68: parse_element_end
ContentEnd(inp, p, r) ==
    Or(r, ContentCharData(inp, p, parse_element_end(inp, Rewind(r, p))))

\* element.rs:66-74: each alternative gets the result r of the one before.
parse_content(inp, p) == ContentEnd(inp, p, parse_element_empty_or_start(inp, p))

-----------------------------------------------------------------------------
(* reader.rs: the XML declaration.  The value of a declaration is          *)
(* [version, encoding, standalone, span]; an Option is the empty sequence  *)
(* or a one-element one.                                                   *)

\* reader.rs:44-50
skip_ws(inp, p) ==
    IF take_while(inp, p, Spaces).some
    THEN Ok(take_while(inp, p, Spaces).span, take_while(inp, p, Spaces).pos)
    ELSE Recoverable("Ws", CtxSpan(inp, p), p)

\* An optional parser that turns a Fatal failure into None as well.
OptionalLenient(r, p) ==
    IF r.tag = "Ok" THEN [tag |-> "Ok", val |-> <<r.val>>, pos |-> r.pos]
    ELSE [tag |-> "Ok", val |-> <<>>, pos |-> p]

\* ParserExt::ok of the parser that returned r when run at p: a Recoverable
\* failure is None with the cursor back at p, a Fatal one stays a failure.
Optional(r, p) ==
    IF r.tag = "Ok" THEN [tag |-> "Ok", val |-> <<r.val>>, pos |-> r.pos]
    ELSE IF r.tag = "Recoverable" THEN [tag |-> "Ok", val |-> <<>>, pos |-> p]
    ELSE r

\* reader.rs:52-59: parse_eq; q is the cursor after the optional whitespace.
EqAt(inp, q) ==
    IF At(inp, q) = "="
    THEN Ok(Span(q, 1), SkipWS(inp, q + 1))
    ELSE Fatal("Eq", CtxSpan(inp, q), q)

\* A version parser that takes any closing quote.
VersionLiteralAnyQuote(inp, p, q) ==
    IF ~(StartsWith(inp, p, <<"1", ".", "1">>) \/ StartsWith(inp, p, <<"1", ".", "0">>))
    THEN ErrVal(Fatal("VersionVerStr", CtxSpan(inp, p), p))
    ELSE IF ~IsQuote(At(inp, p + 3))
    THEN ErrVal(Fatal("VersionQuote", CtxSpan(inp, p + 3), p + 3))
    ELSE OkVal(IF StartsWith(inp, p, <<"1", ".", "1">>) THEN "Ver11" ELSE "Ver10",
               Span(p, 3), p + 4)

\* reader.rs:75-86: the version literal and the closing quote; q is the
\* opening quote.
VersionLiteral(inp, p, q) ==
    IF ~(StartsWith(inp, p, <<"1", ".", "1">>) \/ StartsWith(inp, p, <<"1", ".", "0">>))
    THEN ErrVal(Fatal("VersionVerStr", CtxSpan(inp, p), p))
    ELSE IF At(inp, p + 3) # q
    THEN ErrVal(Fatal("VersionQuote", CtxSpan(inp, p + 3), p + 3))
    ELSE OkVal(IF StartsWith(inp, p, <<"1", ".", "1">>) THEN "Ver11" ELSE "Ver10",
               Span(p, 3), p + 4)

\* reader.rs:67-73: the `=` and the opening quote.
VersionEq(inp, eq) ==
    IF eq.tag # "Ok" THEN ErrVal(eq)
    ELSE IF ~IsQuote(At(inp, eq.pos))
    THEN ErrVal(Fatal("VersionQuote", CtxSpan(inp, eq.pos), eq.pos))
    ELSE VersionLiteral(inp, eq.pos + 1, At(inp, eq.pos))

\* reader.rs:61-87
parse_version_info(inp, p) ==
    IF skip_ws(inp, p).tag # "Ok" THEN ErrVal(skip_ws(inp, p))
    ELSE IF ~StartsWith(inp, skip_ws(inp, p).pos, <<"v", "e", "r", "s", "i", "o", "n">>)
    THEN ErrVal(Fatal("VersionLitVer", CtxSpan(inp, skip_ws(inp, p).pos),
                      skip_ws(inp, p).pos))
    ELSE VersionEq(inp, EqAt(inp, SkipWS(inp, skip_ws(inp, p).pos + 7)))

\* An encoding parser whose span runs over the closing quote.
EncodingNameInclusive(inp, p, q, name) ==
    IF ~name.some THEN ErrVal(Fatal("EncodingEncName", CtxSpan(inp, p), p))
    ELSE IF At(inp, name.pos) # q
    THEN ErrVal(Fatal("EncodingQuote", CtxSpan(inp, name.pos), name.pos))
    ELSE OkVal(Span(p, name.span.len + 1), name.span, name.pos + 1)

\* reader.rs:103-112: the encoding name and the closing quote.
EncodingName(inp, p, q, name) ==
    IF ~name.some THEN ErrVal(Fatal("EncodingEncName", CtxSpan(inp, p), p))
    ELSE IF At(inp, name.pos) # q
    THEN ErrVal(Fatal("EncodingQuote", CtxSpan(inp, name.pos), name.pos))
    ELSE OkVal(name.span, name.span, name.pos + 1)

\* reader.rs:94-101: the `=` and the opening quote.
EncodingEq(inp, eq) ==
    IF eq.tag # "Ok" THEN ErrVal(eq)
    ELSE IF ~IsQuote(At(inp, eq.pos))
    THEN ErrVal(Fatal("EncodingQuote", CtxSpan(inp, eq.pos), eq.pos))
    ELSE EncodingName(inp, eq.pos + 1, At(inp, eq.pos),
                      take_while(inp, eq.pos + 1, Char \ {At(inp, eq.pos)}))

\* reader.rs:89-115
parse_encoding_decl(inp, p) ==
    IF skip_ws(inp, p).tag # "Ok" THEN ErrVal(skip_ws(inp, p))
    ELSE IF ~StartsWith(inp, skip_ws(inp, p).pos, <<"e", "n", "c", "o", "d", "i", "n", "g">>)
    THEN ErrVal(Recoverable("Keyword", CtxSpan(inp, skip_ws(inp, p).pos),
                            skip_ws(inp, p).pos))
    ELSE EncodingEq(inp, EqAt(inp, SkipWS(inp, skip_ws(inp, p).pos + 8)))

\* reader.rs:130-139: yes or no and the closing quote; q is the opening quote.
StandaloneFlag(inp, p, q) ==
    IF ~(StartsWith(inp, p, <<"y", "e", "s">>) \/ StartsWith(inp, p, <<"n", "o">>))
    THEN ErrVal(Fatal("StandaloneSDBool", CtxSpan(inp, p), p))
    ELSE LET n == IF StartsWith(inp, p, <<"y", "e", "s">>) THEN 3 ELSE 2
         IN  IF At(inp, p + n) # q
             THEN ErrVal(Fatal("StandaloneQuote", CtxSpan(inp, p + n), p + n))
             ELSE OkVal(n = 3, Span(p, n), p + n + 1)

\* reader.rs:122-128: the `=` and the opening quote.
StandaloneEq(inp, eq) ==
    IF eq.tag # "Ok" THEN ErrVal(eq)
    ELSE IF ~IsQuote(At(inp, eq.pos))
    THEN ErrVal(Fatal("StandaloneQuote", CtxSpan(inp, eq.pos), eq.pos))
    ELSE StandaloneFlag(inp, eq.pos + 1, At(inp, eq.pos))

\* reader.rs:117-142
parse_standalone_decl(inp, p) ==
    IF skip_ws(inp, p).tag # "Ok" THEN ErrVal(skip_ws(inp, p))
    ELSE IF ~StartsWith(inp, skip_ws(inp, p).pos, <<"s", "t", "a", "n", "d", "a", "l", "o", "n", "e">>)
    THEN ErrVal(Recoverable("Keyword", CtxSpan(inp, skip_ws(inp, p).pos),
                            skip_ws(inp, p).pos))
    ELSE StandaloneEq(inp, EqAt(inp, SkipWS(inp, skip_ws(inp, p).pos + 10)))

\* reader.rs:152-161: the optional whitespace, `?>` and the event.
DeclEnd(inp, p, version, encoding, standalone) ==
    IF ~StartsWith(inp, SkipWS(inp, standalone.pos), <<"?", ">">>)
    THEN ErrVal(Recoverable("Keyword", CtxSpan(inp, SkipWS(inp, standalone.pos)),
                            SkipWS(inp, standalone.pos)))
    ELSE OkVal([version |-> version.val,
                encoding |-> IF encoding.val = <<>> THEN <<>>
                             ELSE <<as_str(inp, encoding.val[1])>>,
                standalone |-> standalone.val,
                span |-> Span(p, SkipWS(inp, standalone.pos) + 2 - p)],
               Span(p, SkipWS(inp, standalone.pos) + 2 - p),
               SkipWS(inp, standalone.pos) + 2)

\* A declaration parser that takes an encoding after standalone as well.
DeclEncodingAnyOrder(inp, p, version, encoding) ==
    IF encoding.tag # "Ok" THEN ErrVal(encoding)
    ELSE LET sd == Optional(parse_standalone_decl(inp, encoding.pos), encoding.pos)
         IN  IF sd.tag # "Ok" THEN ErrVal(sd)
             ELSE LET late == Optional(parse_encoding_decl(inp, sd.pos), sd.pos)
                  IN  IF late.tag # "Ok" THEN ErrVal(late)
                      ELSE DeclEnd(inp, p, version,
                                   IF late.val # <<>> THEN late ELSE encoding,
                                   [sd EXCEPT !.pos = late.pos])

\* reader.rs:148-150: the encoding read, the optional standalone.
DeclEncoding(inp, p, version, encoding) ==
    IF encoding.tag # "Ok" THEN ErrVal(encoding)
    ELSE IF Optional(parse_standalone_decl(inp, encoding.pos), encoding.pos).tag # "Ok"
    THEN ErrVal(Optional(parse_standalone_decl(inp, encoding.pos), encoding.pos))
    ELSE DeclEnd(inp, p, version, encoding,
                 Optional(parse_standalone_decl(inp, encoding.pos), encoding.pos))

\* reader.rs:146-148: the version read, the optional encoding.
DeclVersion(inp, p, version) ==
    IF version.tag # "Ok" THEN version
    ELSE DeclEncoding(inp, p, version,
                      Optional(parse_encoding_decl(inp, version.pos), version.pos))

\* reader.rs:144-162
parse_xml_decl(inp, p) ==
    IF ~StartsWith(inp, p, <<"<", "?", "x", "m", "l">>)
    THEN ErrVal(Recoverable("Keyword", CtxSpan(inp, p), p))
    ELSE DeclVersion(inp, p, parse_version_info(inp, p + 5))

\* reader.rs:169-178: the error without its ControlFlow, or todo!().
read_xml(inp) ==
    IF parse_xml_decl(inp, 0).tag # "Ok"
    THEN [tag |-> "Err", err |-> parse_xml_decl(inp, 0).err,
          span |-> parse_xml_decl(inp, 0).span, pos |-> parse_xml_decl(inp, 0).pos]
    ELSE [tag |-> "Panic", err |-> "todo", span |-> NoSpan,
          pos |-> parse_xml_decl(inp, 0).pos]

-----------------------------------------------------------------------------
(* writer.rs: XmlWriter.  The sink is the text written so far.              *)

\* types.rs:13-20: Display for XmlVersion
fmt_version(version) ==
    IF version = "Ver10" THEN <<"1", ".", "0">> ELSE <<"1", ".", "1">>

\* writer.rs:23-47: what write_xml_decl appends to the sink.  The values
\* are formatted as they are, without quotes.
write_xml_decl(version, encoding, standalone) ==
    <<"<", "?", "x", "m", "l", " ", "v", "e", "r", "s", "i", "o", "n", "=">>
        \o fmt_version(version)
        \o (IF encoding # <<>>
            THEN <<" ", "e", "n", "c", "o", "d", "i", "n", "g", "=">> \o encoding[1]
            ELSE <<>>)
        \o (IF standalone # <<>>
            THEN <<" ", "s", "t", "a", "n", "d", "a", "l", "o", "n", "e", "=">>
                     \o (IF standalone[1] THEN <<"y", "e", "s">> ELSE <<"n", "o">>)
            ELSE <<>>)
        \o <<"?", ">">>

-----------------------------------------------------------------------------
(* element.rs:77-130: parse_element, one loop iteration in two steps.       *)

NoEvent == [kind |-> "none"]

NoShape == [name |-> <<>>, attrs |-> <<>>, ws |-> <<>>, term |-> <<>>]

\* XmLexer::new (lexer.rs:493-506) and a reader at the start of a document.
ReaderIdle ==
    /\ lexer_state = "Markup"
    /\ span_offset = 0
    /\ tokens = <<>>
    /\ read_state = "XmlDecl"

ElementIdle ==
    /\ shape = NoShape
    /\ event = NoEvent
    /\ events = <<>>
    /\ elem_starts = <<>>
    /\ pushes = 0
    /\ pops = 0
    /\ c = 0
    /\ unclosed = 0
    /\ ReaderIdle

Result(tag, e, names, p) ==
    [tag |-> tag, err |-> e, span |-> NoSpan, pos |-> p, names |-> names]

\* element.rs:93-107: the comparison of a popped start tag with an end tag.
Mismatch(inp, start_tag, name) ==
    \/ as_str(inp, start_tag.local_name) # as_str(inp, name.local_name)
    \/ /\ start_tag.prefix # <<>>
       /\ \/ name.prefix = <<>>
          \/ as_str(inp, name.prefix[1]) # as_str(inp, start_tag.prefix[1])

\* A loop that pushes the name of a self-closing tag too.
PushesEmpty(ev) == ev.kind \in {"ElementStart", "EmptyElement"}

\* element.rs:88-90: the events that push their name.
Pushes(ev) == ev.kind = "ElementStart"

\* element.rs:91-92: the events that pop a name.
Pops(ev) == ev.kind = "ElementEnd"

\* element.rs:117-119: the loop ends once no element is open.
Closed(starts) == starts = <<>>

Failed(r) ==
    /\ pc' = "done"
    /\ out' = r
    /\ UNCHANGED <<event, events>>

\* element.rs:115-119: events.push(event), then return or go on.
Emit(starts) ==
    /\ events' = Append(events, event)
    /\ UNCHANGED event
    /\ IF Closed(starts)
       THEN pc' = "done" /\ out' = Result("Ok", "none", <<>>, pos)
       ELSE pc' = "content" /\ UNCHANGED out

\* element.rs:82: the root start tag.
\* The event a parser returned becomes `event`; an error ends parse_element.
Parsed(r, onRecoverable) ==
    /\ pos' = r.pos
    /\ IF r.tag = "Ok"
       THEN event' = r.val /\ pc' = "match" /\ UNCHANGED out
       ELSE /\ UNCHANGED event
            /\ pc' = "done"
            /\ out' = IF r.tag = "Recoverable"
                      THEN onRecoverable
                      ELSE Result(r.tag, r.err, <<>>, r.pos)
    /\ UNCHANGED <<input, begin, valid, events, elem_starts, pushes, pops, shape, c, unclosed,
                 ReaderVars>>

ParseRoot ==
    /\ pc = "root"
    /\ Parsed(parse_element_empty_or_start(input, pos),
              Result("Recoverable", "ElementPrefix", <<>>, pos))

\* element.rs:87-119: the match on `event`.
MatchEvent ==
    /\ pc = "match"
    /\ IF Pushes(event)
       THEN /\ elem_starts' = Append(elem_starts, event.name)
            /\ pushes' = pushes + 1
            /\ UNCHANGED pops
            /\ Emit(elem_starts')
       ELSE IF Pops(event)
       THEN IF elem_starts # <<>>
            THEN LET start_tag == elem_starts[Len(elem_starts)]
                 IN  /\ elem_starts' = SubSeq(elem_starts, 1, Len(elem_starts) - 1)
                     /\ pops' = pops + 1
                     /\ UNCHANGED pushes
                     /\ IF Mismatch(input, start_tag, event.name)
                        THEN Failed(Result("Fatal", "Mismatch",
                                           <<start_tag, event.name>>, pos))
                        ELSE Emit(elem_starts')
            ELSE /\ Failed(Result("Fatal", "HangEndTag", <<event.name>>, pos))
                 /\ UNCHANGED <<elem_starts, pushes, pops>>
       ELSE /\ UNCHANGED <<elem_starts, pushes, pops>>
            /\ Emit(elem_starts)
    /\ UNCHANGED <<input, begin, pos, valid, shape, c, unclosed, ReaderVars>>

\* An error that lists the open elements innermost first.
UnclosedInnermostFirst(starts, p) ==
    Result("Fatal", "Unclosed", [i \in 1..Len(starts) |-> starts[Len(starts) + 1 - i]], p)

\* element.rs:124-127: ReadError::Unclosed(elem_starts, ctx.span())
Unclosed(starts, p) == Result("Fatal", "Unclosed", starts, p)

\* element.rs:121-128: the next event of the content.
ParseContent ==
    /\ pc = "content"
    /\ Parsed(parse_content(input, pos), Unclosed(elem_starts, pos))

\* The pieces documents are put together from.
Chunks ==
    { <<"<", "a", ">">>, <<"<", "b", ">">>, <<"<", "x", ":", "a", ">">>,
      <<"<", "/", "a", ">">>, <<"<", "/", "b", ">">>,
      <<"<", "/", "x", ":", "a", ">">>, <<"<", "/", "y", ":", "a", ">">>,
      <<"<", "a", "/", ">">>, <<"<", "b", " ", "a", "=", SQ, SQ, " ", "/", ">">>,
      <<"t">>, CommentOpen \o <<"-", "-", ">">>, CDataOpen \o <<"]", "]", ">">>,
      <<"<", "?", "p", "?", ">">>, <<"<", "!">> }

Init ==
    /\ input \in {Concat(cs) : cs \in SeqsUpTo(Chunks, MaxChunks)}
    /\ begin = 0
    /\ pos = 0
    /\ pc = "root"
    /\ out = NoResult
    /\ valid = AnyChar
    /\ ElementIdle

Next == ParseRoot \/ MatchEvent \/ ParseContent

Spec == Init /\ [][Next]_vars

\* Run a parser at the cursor: its result and the cursor it leaves.
Ran(name, r) ==
    /\ pc' = name
    /\ out' = r
    /\ pos' = r.pos
    /\ UNCHANGED <<input, begin, valid, event, events, elem_starts, pushes, pops, shape,
                 c, unclosed, ReaderVars>>

-----------------------------------------------------------------------------
(* parse_element_empty_or_start applied to start tags put together from a   *)
(* name, attributes (each after a separator), whitespace and a terminator.  *)

TagNames ==
    { [text |-> <<"a">>, prefix |-> <<>>, local |-> <<"a">>],
      [text |-> <<"x", ":", "a">>, prefix |-> <<<<"x">>>>, local |-> <<"a">>] }

AttrForms ==
    { [text |-> <<"b", "=", DQ, DQ>>, prefix |-> <<>>, local |-> <<"b">>,
       value |-> <<>>],
      [text |-> <<"y", " ", "=", " ", SQ, "a", SQ>>, prefix |-> <<>>, local |-> <<"y">>,
       value |-> <<"a">>],
      [text |-> <<"x", ":", "b", "=", DQ, SQ, DQ>>, prefix |-> <<<<"x">>>>,
       local |-> <<"b">>, value |-> <<SQ>>] }

Seps == {<<>>, <<" ">>}

Terms ==
    { <<">">>, <<"/", ">">>, <<">", ">">>, <<"/", ">", "t">>, <<>>, <<"/">>, <<"=">>,
      <<"<">>, <<"/", " ", ">">>, <<"?", ">">>, <<SQ>> }

Shapes ==
    [name : TagNames,
     attrs : SeqsUpTo([sep : Seps, form : AttrForms], MaxAttrs),
     ws : Seps,
     term : Terms]

RECURSIVE AttrsText(_)
AttrsText(as) ==
    IF as = <<>> THEN <<>>
    ELSE Head(as).sep \o Head(as).form.text \o AttrsText(Tail(as))

TagText(s) == <<"<">> \o s.name.text \o AttrsText(s.attrs) \o s.ws \o s.term

InitTag ==
    /\ shape \in Shapes
    /\ input = TagText(shape)
    /\ begin = 0
    /\ pos = 0
    /\ pc = "ready"
    /\ out = NoResult
    /\ valid = AnyChar
    /\ event = NoEvent
    /\ events = <<>>
    /\ elem_starts = <<>>
    /\ pushes = 0
    /\ pops = 0
    /\ c = 0
    /\ unclosed = 0
    /\ ReaderIdle

RunTag ==
    /\ pc = "ready"
    /\ Ran("tag", parse_element_empty_or_start(input, pos))

SpecTag == InitTag /\ [][RunTag]_vars

-----------------------------------------------------------------------------
(* The scanners applied to every short input of their alphabets.           *)

QuoteAlphabet == {SQ, DQ, "a", "<"}

InitQuote ==
    /\ input \in SeqsUpTo(QuoteAlphabet, MaxQuoteLen)
    /\ begin \in {0, 1}
    /\ begin <= Len(input)
    /\ pos = begin
    /\ valid \in {AnyChar, PubIdChar}
    /\ pc = "ready"
    /\ out = NoResult
    /\ ElementIdle

RunQuote ==
    /\ pc = "ready"
    /\ Ran("quote", quote(input, pos, valid))

RunNextQuoteStr ==
    /\ pc = "ready"
    /\ IsQuote(At(input, pos))
    /\ Ran("next_quote_str", next_quote_str(input, pos))

NextQuote == RunQuote \/ RunNextQuoteStr

SpecQuote == InitQuote /\ [][NextQuote]_vars

CommentAlphabet == {"-", ">", "a"}

InitComment ==
    /\ \E s \in SeqsUpTo(CommentAlphabet, MaxBody) :
           input \in {s, CommentOpen \o s, <<"a">> \o CommentOpen \o s}
    /\ begin = (IF Len(input) > 0 /\ input[1] = "a" THEN 1 ELSE 0)
    /\ pos = begin
    /\ valid = AnyChar
    /\ pc = "ready"
    /\ out = NoResult
    /\ ElementIdle

RunCommentParse ==
    /\ pc = "ready"
    /\ Ran("Comment_parse", Comment_parse(input, pos))

RunNextComment ==
    /\ pc = "ready"
    /\ Ran("next_comment", next_comment(input, pos))

NextComment == RunCommentParse \/ RunNextComment

SpecComment == InitComment /\ [][NextComment]_vars

CDataAlphabet == {"]", ">", "a"}

InitCData ==
    /\ \E s \in SeqsUpTo(CDataAlphabet, MaxBody) :
           input \in {s, CDataOpen \o s, <<"a">> \o CDataOpen \o s}
    /\ begin = (IF Len(input) > 0 /\ input[1] = "a" THEN 1 ELSE 0)
    /\ pos = begin
    /\ valid = AnyChar
    /\ pc = "ready"
    /\ out = NoResult
    /\ ElementIdle

RunCDataParse ==
    /\ pc = "ready"
    /\ Ran("CData_parse", CData_parse(input, pos))

RunNextCData ==
    /\ pc = "ready"
    /\ Ran("next_cdata", next_cdata(input, pos))

NextCData == RunCDataParse \/ RunNextCData

SpecCData == InitCData /\ [][NextCData]_vars

\* Both parsers and both lexer scanners on the inputs of either.
InitScanners == InitComment \/ InitCData

NextScanners == NextComment \/ NextCData

SpecScanners == InitScanners /\ [][NextScanners]_vars

-----------------------------------------------------------------------------
(* PI::parse applied to `<?`, a target and every short text after it.      *)

PITargets ==
    { <<"x", "m", "l">>, <<"X", "M", "L">>, <<"x", "M", "l">>,
      <<"x", "m", "l", "-", "a">>, <<"a", "x", "m", "l">>, <<"x", "m">>, <<"p">> }

PIAlphabet == {" ", "?", ">", "a"}

PIOpen == <<"<", "?">>

InitPI ==
    /\ \E target \in PITargets, rest \in SeqsUpTo(PIAlphabet, MaxPI) :
           input = PIOpen \o target \o rest
    /\ begin = 0
    /\ pos = begin
    /\ valid = AnyChar
    /\ pc = "ready"
    /\ out = NoResult
    /\ ElementIdle

RunPI ==
    /\ pc = "ready"
    /\ Ran("PI_parse", PI_parse(input, pos))

SpecPI == InitPI /\ [][RunPI]_vars

-----------------------------------------------------------------------------
(* CharData::parse, and parse_content, applied to every short text of      *)
(* whitespace, a letter and `<`, from its start or from its second          *)
(* character.                                                               *)

CharDataAlphabet == {" ", NL, "a", "<"}

InitCharData ==
    /\ input \in SeqsUpTo(CharDataAlphabet, MaxBody)
    /\ begin \in {0, 1}
    /\ begin <= Len(input)
    /\ pos = begin
    /\ valid = AnyChar
    /\ pc = "ready"
    /\ out = NoResult
    /\ ElementIdle

\* misc.rs:188-204
RunCharData ==
    /\ pc = "ready"
    /\ Ran("CharData_parse", CharData_parse(input, pos))

\* element.rs:66-74
RunContent ==
    /\ pc = "ready"
    /\ Ran("parse_content", parse_content(input, pos))

NextCharData == RunCharData \/ RunContent

SpecCharData == InitCharData /\ [][NextCharData]_vars

-----------------------------------------------------------------------------
(* parse_content applied to one piece of content, after nothing or a        *)
(* letter, and before every short text.                                     *)

ContentPieces ==
    { [kind |-> "ElementEnd", text |-> <<"<", "/", "a", ">">>],
      [kind |-> "ElementEnd", text |-> <<"<", "/", "x", ":", "a", " ", ">">>],
      [kind |-> "CData", text |-> CDataOpen \o <<"]", "]", ">">>],
      [kind |-> "CData", text |-> CDataOpen \o <<"a", "]", "]", "]", ">">>],
      [kind |-> "PI", text |-> <<"<", "?", "p", "?", ">">>],
      [kind |-> "PI", text |-> <<"<", "?", "p", " ", "a", "?", ">">>],
      [kind |-> "Comment", text |-> CommentOpen \o <<"-", "-", ">">>],
      [kind |-> "Comment", text |-> CommentOpen \o <<"a", "-", "-", ">">>],
      [kind |-> "ElementStart", text |-> <<"<", "a", ">">>],
      [kind |-> "EmptyElement", text |-> <<"<", "a", "/", ">">>],
      [kind |-> "CharData", text |-> <<"a">>],
      [kind |-> "none", text |-> <<"<", "/">>],
      [kind |-> "none", text |-> <<"<", "!", "a">>],
      [kind |-> "none", text |-> <<"<", "?", ">">>],
      [kind |-> "none", text |-> CommentOpen \o <<"a">>] }

InitContent ==
    /\ shape \in [piece : ContentPieces, pre : {<<>>, <<"a">>},
                  post : SeqsUpTo({"a", "<", "/"}, MaxPost)]
    /\ input = shape.pre \o shape.piece.text \o shape.post
    /\ begin = Len(shape.pre)
    /\ pos = begin
    /\ valid = AnyChar
    /\ pc = "ready"
    /\ out = NoResult
    /\ event = NoEvent
    /\ events = <<>>
    /\ elem_starts = <<>>
    /\ pushes = 0
    /\ pops = 0
    /\ c = 0
    /\ unclosed = 0
    /\ ReaderIdle

SpecContent == InitContent /\ [][RunContent]_vars

-----------------------------------------------------------------------------
(* The name parsers applied to every short text of name characters,        *)
(* colons and delimiters.                                                   *)

NameAlphabet == {"a", "1", ":", "-", ".", "_", " ", ">"}

InitName ==
    /\ input \in SeqsUpTo(NameAlphabet, MaxName)
    /\ begin \in {0, 1}
    /\ begin <= Len(input)
    /\ pos = begin
    /\ valid = AnyChar
    /\ pc = "ready"
    /\ out = NoResult
    /\ ElementIdle

\* misc.rs:115-135: Name::parse, a single span.
RunName1 ==
    /\ pc = "ready"
    /\ Ran("Name1_parse", Name1_parse(input, pos))

\* Name::parse with a prefix and a local_name.
RunName ==
    /\ pc = "ready"
    /\ Ran("Name_parse", Name_parse(input, pos))

\* lexer.rs:204-225
RunNextName ==
    /\ pc = "ready"
    /\ Ran("next_name", next_name(input, pos))

NextName == RunName1 \/ RunName \/ RunNextName

SpecName == InitName /\ [][NextName]_vars

-----------------------------------------------------------------------------
(* XmLexer as an iterator over documents put together from pieces of       *)
(* markup, over a whole document or a fragment at offset 10, started in     *)
(* either mode.  The iteration ends at Ok(None) or at the first Err.        *)

LexChunks ==
    { <<"<">>, <<"<", "?">>, <<"=">>, <<SQ, "a", SQ>>, <<" ">>, <<"a">>, <<"-">>,
      CommentOpen, <<"-", "-", ">">>, CDataOpen \o <<"]", "]", ">">> }

InitLexer ==
    /\ input \in {Concat(cs) : cs \in SeqsUpTo(LexChunks, MaxLexChunks)}
    /\ lexer_state \in {"Markup", "CharData"}
    /\ span_offset \in {0, 10}
    /\ tokens = <<>>
    /\ read_state = "XmlDecl"
    /\ begin = 0
    /\ pos = 0
    /\ pc = "ready"
    /\ out = NoResult
    /\ valid = AnyChar
    /\ shape = NoShape
    /\ event = NoEvent
    /\ events = <<>>
    /\ elem_starts = <<>>
    /\ pushes = 0
    /\ pops = 0
    /\ c = 0
    /\ unclosed = 0

\* lexer.rs:656-667: Iterator::next, which is next_token.
NextToken ==
    /\ pc = "ready"
    /\ out' = Based(next_token(input, pos, lexer_state), span_offset)
    /\ pos' = out'.pos
    /\ lexer_state' = out'.state
    /\ tokens' = IF out'.tag = "Ok"
                 THEN Append(tokens, [kind |-> out'.kind, span |-> out'.span])
                 ELSE tokens
    /\ pc' = IF out'.tag = "Ok" THEN "ready" ELSE "done"
    /\ begin' = pos
    /\ UNCHANGED <<input, valid, event, events, elem_starts, pushes, pops, shape, c,
                   unclosed, span_offset, read_state>>

SpecLexer == InitLexer /\ [][NextToken]_vars

\* The consumer of the iterator keeps calling it.
FairLexer == SpecLexer /\ WF_vars(NextToken)


-----------------------------------------------------------------------------
(* Reader::next_node, called again and again, from each ReadState           *)
(* Reader::new accepts, over texts made of one alternative for each part    *)
(* of `<?xml version = '1.0'?>` and of `<a/>`.                              *)

ReadStates ==
    {"XmlDecl", "MiscBeforeElement", "RootElement", "Element", "MiscAfterElement", "Eof"}

ReaderSlots ==
    << { <<"<", "?">>, <<"<">>, <<>> },
       { <<"x", "m", "l">>, <<"a">> },
       { <<" ">>, <<>> },
       { <<"v", "e", "r", "s", "i", "o", "n">>, <<"a">>, <<>> },
       { <<"=">>, <<" ", "=", " ">>, <<"=", " ">>, <<" ">>, <<>> },
       { <<SQ, "1", ".", "0", SQ>>, <<SQ, "1">>, <<"a">>, <<>> },
       { <<"?", ">">>, <<"/", ">">>, <<">">>, <<>> } >>

ReaderTexts ==
    { s1 \o s2 \o s3 \o s4 \o s5 \o s6 \o s7 :
          s1 \in ReaderSlots[1], s2 \in ReaderSlots[2], s3 \in ReaderSlots[3],
          s4 \in ReaderSlots[4], s5 \in ReaderSlots[5], s6 \in ReaderSlots[6],
          s7 \in ReaderSlots[7] }

\* reader.rs:270-279: Reader::new over a lexer made from a string.
InitReader ==
    /\ input \in ReaderTexts
    /\ read_state \in ReadStates
    /\ lexer_state = "Markup"
    /\ span_offset = 0
    /\ tokens = <<>>
    /\ begin = 0
    /\ pos = 0
    /\ pc = "ready"
    /\ out = NoResult
    /\ valid = AnyChar
    /\ shape = NoShape
    /\ event = NoEvent
    /\ events = <<>>
    /\ elem_starts = <<>>
    /\ pushes = 0
    /\ pops = 0
    /\ c = 0
    /\ unclosed = 0

\* reader.rs:282-307: a call of next_node.  A panic ends the use of the
\* reader; after Err or Ok(None) it can be called again.
NextNode ==
    /\ pc = "ready"
    /\ out' = next_node(input, pos, lexer_state, read_state)
    /\ pos' = out'.pos
    /\ lexer_state' = out'.state
    /\ read_state' = out'.read_state
    /\ pc' = IF out'.tag = "Panic" THEN "done" ELSE "ready"
    /\ begin' = pos
    /\ UNCHANGED <<input, valid, event, events, elem_starts, pushes, pops, shape, c,
                   unclosed, span_offset, tokens>>

SpecReader == InitReader /\ [][NextNode]_vars

-----------------------------------------------------------------------------
(* Reader::expect_eq, and the read after it, on every short text of         *)
(* whitespace, `=`, a letter and a quote.                                   *)

EqAlphabet == {" ", "=", "a", SQ}

InitEq ==
    /\ input \in SeqsUpTo(EqAlphabet, MaxEq)
    /\ read_state = "XmlDecl"
    /\ lexer_state = "Markup"
    /\ span_offset = 0
    /\ tokens = <<>>
    /\ begin = 0
    /\ pos = 0
    /\ pc = "ready"
    /\ out = NoResult
    /\ valid = AnyChar
    /\ shape = NoShape
    /\ event = NoEvent
    /\ events = <<>>
    /\ elem_starts = <<>>
    /\ pushes = 0
    /\ pops = 0
    /\ c = 0
    /\ unclosed = 0

\* reader.rs:171-225
RunExpectEq ==
    /\ pc = "ready"
    /\ pc' = "expect_eq"
    /\ out' = expect_eq(input, pos, lexer_state, "XmlDecl")
    /\ pos' = out'.pos
    /\ lexer_state' = out'.state
    /\ UNCHANGED <<input, begin, valid, event, events, elem_starts, pushes, pops, shape,
                   c, unclosed, span_offset, tokens, read_state>>

\* reader.rs:93-99: the read that follows an Ok of expect_eq.
ReadAfterEq ==
    /\ pc = "expect_eq"
    /\ out.tag = "Ok"
    /\ pc' = "next_token"
    /\ out' = next_token(input, pos, lexer_state)
    /\ pos' = out'.pos
    /\ lexer_state' = out'.state
    /\ tokens' = IF out'.tag = "Ok"
                 THEN Append(tokens, [kind |-> out'.kind, span |-> out'.span])
                 ELSE tokens
    /\ begin' = pos
    /\ UNCHANGED <<input, valid, event, events, elem_starts, pushes, pops, shape, c,
                   unclosed, span_offset, read_state>>

NextEq == RunExpectEq \/ ReadAfterEq

SpecEq == InitEq /\ [][NextEq]_vars

-----------------------------------------------------------------------------
(* write_xml_decl into an empty sink, for each version, each short          *)
(* encoding name (or none) and each standalone flag (or none), and          *)
(* parse_xml_decl on what was written.                                      *)

EncodingArgs == {<<>>} \cup {<<e>> : e \in SeqsUpTo({"a", "-", SQ}, MaxEnc) \ {<<>>}}

InitWriter ==
    /\ shape \in [version : {"Ver10", "Ver11"}, encoding : EncodingArgs,
                  standalone : {<<>>, <<TRUE>>, <<FALSE>>}]
    /\ input = <<>>
    /\ begin = 0
    /\ pos = 0
    /\ pc = "ready"
    /\ out = NoResult
    /\ valid = AnyChar
    /\ event = NoEvent
    /\ events = <<>>
    /\ elem_starts = <<>>
    /\ pushes = 0
    /\ pops = 0
    /\ c = 0
    /\ unclosed = 0
    /\ ReaderIdle

\* writer.rs:23-47
WriteXmlDecl ==
    /\ pc = "ready"
    /\ pc' = "written"
    /\ input' = input \o write_xml_decl(shape.version, shape.encoding, shape.standalone)
    /\ UNCHANGED <<begin, pos, out, valid, event, events, elem_starts, pushes, pops,
                   shape, c, unclosed, ReaderVars>>

\* reader.rs:144-162, on the text in the sink.
ParseWritten ==
    /\ pc = "written"
    /\ Ran("parse_xml_decl", parse_xml_decl(input, pos))

NextWriter == WriteXmlDecl \/ ParseWritten

SpecWriter == InitWriter /\ [][NextWriter]_vars

-----------------------------------------------------------------------------
(* Whitespace, quoted literals and names on texts of several lines.         *)

LineAlphabet == {NL, "=", "a", SQ}

InitLines ==
    /\ input \in SeqsUpTo(LineAlphabet, MaxLines)
    /\ begin \in 0..Len(input)
    /\ pos = begin
    /\ valid = AnyChar
    /\ pc = "ready"
    /\ out = NoResult
    /\ ElementIdle

\* misc.rs:8-20
RunLinesWS ==
    /\ pc = "ready"
    /\ Ran("WS_parse", WS_parse(input, pos))

\* misc.rs:29-60
RunLinesQuote ==
    /\ pc = "ready"
    /\ Ran("quote", quote(input, pos, valid))

\* attr.rs:22-36
RunLinesAttr ==
    /\ pc = "ready"
    /\ Ran("parse_attr", parse_attr(input, pos))

NextLines == RunLinesWS \/ RunLinesQuote \/ RunLinesAttr

SpecLines == InitLines /\ [][NextLines]_vars

-----------------------------------------------------------------------------
(* parse_xml_decl and read_xml applied to declarations put together from    *)
(* `<?xml`, a VersionInfo, encoding and standalone declarations and an end. *)
(* A part is written as it is meant (flaw "none") or with one flaw.         *)

Part(s, kind, flaw, value) ==
    [text |-> s, kind |-> kind, flaw |-> flaw, value |-> value]

VersionParts ==
    { Part(<<" ", "v", "e", "r", "s", "i", "o", "n", "=", SQ, "1", ".", "0", SQ>>, "version", "none", "Ver10"),
      Part(<<" ", "v", "e", "r", "s", "i", "o", "n", " ", "=", " ", DQ, "1", ".", "1", DQ>>, "version", "none", "Ver11"),
      Part(<<" ", "v", "e", "r", "s", "i", "o", "n", "=", DQ, "1", ".", "0", SQ>>, "version", "unmatched", "Ver10"),
      Part(<<" ", "v", "e", "r", "s", "i", "o", "n", "=", SQ, "1", ".", "2", SQ>>, "version", "value", "none"),
      Part(<<" ", "v", "e", "r", "s", "i", "o", "n", "=", "1", ".", "0", SQ>>, "version", "quote", "none"),
      Part(<<" ", "e", "n", "c", "o", "d", "i", "n", "g", "=", SQ, "a", SQ>>, "version", "keyword", "none"),
      Part(<<" ", "v", "e", "r", "s", "i", "o", "n", " ", SQ, "1", ".", "0", SQ>>, "version", "eq", "none"),
      Part(<<"v", "e", "r", "s", "i", "o", "n", "=", SQ, "1", ".", "0", SQ>>, "version", "ws", "Ver10") }

DeclParts ==
    { Part(<<" ", "e", "n", "c", "o", "d", "i", "n", "g", "=", SQ, "a", SQ>>, "encoding", "none", <<"a">>),
      Part(<<" ", "e", "n", "c", "o", "d", "i", "n", "g", " ", "=", " ", DQ, "A", "-", "1", DQ>>, "encoding", "none", <<"A", "-", "1">>),
      Part(<<" ", "e", "n", "c", "o", "d", "i", "n", "g", "=", SQ, SQ>>, "encoding", "empty", <<>>),
      Part(<<" ", "e", "n", "c", "o", "d", "i", "n", "g", " ", SQ, "a", SQ>>, "encoding", "eq", <<"a">>),
      Part(<<" ", "e", "n", "c", "o", "d", "i", "n", "g", "=", "a", SQ>>, "encoding", "quote", <<"a">>),
      Part(<<" ", "e", "n", "c", "o", "d", "i", "n", "g", "=", SQ, "a", DQ>>, "encoding", "unmatched", <<"a">>),
      Part(<<"e", "n", "c", "o", "d", "i", "n", "g", "=", SQ, "a", SQ>>, "encoding", "ws", <<"a">>),
      Part(<<" ", "s", "t", "a", "n", "d", "a", "l", "o", "n", "e", "=", SQ, "y", "e", "s", SQ>>, "standalone", "none", <<"y", "e", "s">>),
      Part(<<" ", "s", "t", "a", "n", "d", "a", "l", "o", "n", "e", " ", "=", " ", DQ, "n", "o", DQ>>, "standalone", "none", <<"n", "o">>),
      Part(<<" ", "s", "t", "a", "n", "d", "a", "l", "o", "n", "e", "=", SQ, "y", SQ>>, "standalone", "value", <<"y">>),
      Part(<<" ", "s", "t", "a", "n", "d", "a", "l", "o", "n", "e", "=", SQ, "y", "e", "s", DQ>>, "standalone", "unmatched", <<"y", "e", "s">>),
      Part(<<" ", "s", "t", "a", "n", "d", "a", "l", "o", "n", "e", " ", SQ, "n", "o", SQ>>, "standalone", "eq", <<"n", "o">>),
      Part(<<" ", "s", "t", "a", "n", "d", "a", "l", "o", "n", "e", "=", "n", "o", SQ>>, "standalone", "quote", <<"n", "o">>) }

DeclTerms == {<<"?", ">">>, <<" ", "?", ">">>, <<"?", ">", "<", "a", "/", ">">>, <<">">>, <<>>}

DeclShapes ==
    [version : VersionParts, parts : SeqsUpTo(DeclParts, MaxDeclParts), term : DeclTerms]

RECURSIVE PartsText(_)
PartsText(ps) == IF ps = <<>> THEN <<>> ELSE Head(ps).text \o PartsText(Tail(ps))

DeclText(s) == <<"<", "?", "x", "m", "l">> \o s.version.text \o PartsText(s.parts) \o s.term

InitDecl ==
    /\ shape \in DeclShapes
    /\ input = DeclText(shape)
    /\ begin = 0
    /\ pos = 0
    /\ pc = "ready"
    /\ out = NoResult
    /\ valid = AnyChar
    /\ event = NoEvent
    /\ events = <<>>
    /\ elem_starts = <<>>
    /\ pushes = 0
    /\ pops = 0
    /\ c = 0
    /\ unclosed = 0
    /\ ReaderIdle

\* reader.rs:144-162
RunXmlDecl ==
    /\ pc = "ready"
    /\ Ran("parse_xml_decl", parse_xml_decl(input, pos))

\* reader.rs:164-178
RunReadXml ==
    /\ pc = "ready"
    /\ Ran("read_xml", read_xml(input))

NextDecl == RunXmlDecl \/ RunReadXml

SpecDecl == InitDecl /\ [][NextDecl]_vars

-----------------------------------------------------------------------------
(* doctype.rs: parse_doc_type_decl, one loop iteration a step, and          *)
(* lexer.rs: XmLexer::next_doc_type, one character (or literal) a step.     *)

DocTypeOpen == <<"<", "!", "D", "O", "C", "T", "Y", "P", "E">>

DeclAlphabet == {"<", ">", SQ, DQ, "a"}

InitDocType ==
    /\ \E s \in SeqsUpTo(DeclAlphabet, MaxDecl) :
           input \in {s, DocTypeOpen \o s, <<"a">> \o DocTypeOpen \o s}
    /\ begin = (IF Len(input) > 0 /\ input[1] = "a" THEN 1 ELSE 0)
    /\ pos = begin
    /\ valid = AnyChar
    /\ pc = "ready"
    /\ out = NoResult
    /\ ElementIdle

\* The variables of the element parser, which no DOCTYPE step touches.
DocTypeOnly ==
    UNCHANGED <<input, begin, valid, event, events, elem_starts, pushes, pops, shape,
                ReaderVars>>

\* A declaration parser that takes EOF for a recoverable failure.
DocTypeEofRecoverable(span, p) == Recoverable("DocTypeSuffix", span, p)

\* doctype.rs:108-111: EOF inside the declaration; `span` is the one of line 70.
DocTypeEof(span, p) == Fatal("DocTypeSuffix", span, p)

\* doctype.rs:93-95: the span returned for the `>` at `span`.
DocTypeClose(start, span, p) == Ok(extend_to_inclusive(start, span), p)

\* A scan that does not stop at quote characters.
DeclMarksUnquoted == {"<", ">"}

\* doctype.rs:79: the characters the scan stops at.
DeclMarks == {"<", ">", DQ, SQ}

\* doctype.rs:70-76
DocTypeBegin ==
    /\ pc = "ready"
    /\ IF StartsWith(input, pos, DocTypeOpen)
       THEN /\ pos' = pos + Len(DocTypeOpen)
            /\ c' = 1
            /\ pc' = "doctype"
            /\ UNCHANGED out
       ELSE /\ out' = Recoverable("DocTypePrefix", CtxSpan(input, pos), pos)
            /\ pc' = "parse_doc_type_decl"
            /\ UNCHANGED <<pos, c>>
    /\ UNCHANGED unclosed
    /\ DocTypeOnly

\* doctype.rs:78-111: one iteration of the loop, or the exit at EOF.
DocTypeStep ==
    /\ pc = "doctype"
    /\ LET q == take_till(input, pos, DeclMarks).pos
           next == At(input, q)
           span == CtxSpan(input, q)
           start == Span(begin, Len(DocTypeOpen))
           literal == quote(input, q, AnyChar)
       IN  IF next = None
           THEN /\ out' = DocTypeEof(CtxSpan(input, begin), q)
                /\ pc' = "parse_doc_type_decl"
                /\ pos' = q
                /\ UNCHANGED c
           ELSE IF next = "<"
           THEN /\ pos' = q + 1
                /\ c' = c + 1
                /\ UNCHANGED <<pc, out>>
           ELSE IF next = ">"
           THEN /\ pos' = q + 1
                /\ c' = c - 1
                /\ IF c - 1 = 0
                   THEN out' = DocTypeClose(start, span, q + 1) /\ pc' = "parse_doc_type_decl"
                   ELSE UNCHANGED <<pc, out>>
           ELSE /\ pos' = literal.pos
                /\ UNCHANGED c
                /\ IF literal.tag = "Ok"
                   THEN UNCHANGED <<pc, out>>
                   ELSE /\ out' = Fatal("DocTypeQuote", span, literal.pos)
                        /\ pc' = "parse_doc_type_decl"
    /\ UNCHANGED unclosed
    /\ DocTypeOnly

\* lexer.rs:376-391
NextDocTypeBegin ==
    /\ pc = "ready"
    /\ IF StartsWith(input, pos, DocTypeOpen)
       THEN /\ pos' = pos + Len(DocTypeOpen)
            /\ unclosed' = 1
            /\ pc' = "lex_doctype"
            /\ UNCHANGED out
       ELSE /\ out' = LexNone(pos)
            /\ pc' = "next_doc_type"
            /\ UNCHANGED <<pos, unclosed>>
    /\ UNCHANGED c
    /\ DocTypeOnly

\* lexer.rs:393-415: one turn of the loop, or its end at EOF.
NextDocTypeStep ==
    /\ pc = "lex_doctype"
    /\ LET ch == At(input, pos)
           start == Span(begin + Len(DocTypeOpen), 0)
           end == Span(next_span(input, pos + 1).offset - 1, next_span(input, pos + 1).len)
       IN  IF ch = None
           THEN /\ out' = LexNone(pos)
                /\ pc' = "next_doc_type"
                /\ UNCHANGED <<pos, unclosed>>
           ELSE IF IsQuote(ch)
           THEN /\ pos' = next_quote_str(input, pos).pos
                /\ UNCHANGED <<pc, out, unclosed>>
           ELSE /\ pos' = pos + 1
                /\ unclosed' = (IF ch = "<" THEN unclosed + 1
                                ELSE IF ch = ">" THEN unclosed - 1 ELSE unclosed)
                /\ IF ch = ">" /\ unclosed - 1 = 0
                   THEN out' = Ok(extend_to(start, end), pos + 1) /\ pc' = "next_doc_type"
                   ELSE UNCHANGED <<pc, out>>
    /\ UNCHANGED c
    /\ DocTypeOnly

\* lexer.rs:595-653: next_token of a lexer in Markup mode, on the same
\* inputs.
DocTypeNextToken ==
    /\ pc = "ready"
    /\ pc' = "next_token"
    /\ out' = next_token(input, pos, lexer_state)
    /\ pos' = out'.pos
    /\ lexer_state' = out'.state
    /\ UNCHANGED <<input, begin, valid, event, events, elem_starts, pushes, pops, shape,
                   c, unclosed, span_offset, tokens, read_state>>

NextDocType ==
    DocTypeBegin \/ DocTypeStep \/ NextDocTypeBegin \/ NextDocTypeStep \/ DocTypeNextToken

SpecDocType == InitDocType /\ [][NextDocType]_vars

-----------------------------------------------------------------------------
(* What the scanners are to compute, stated on the text alone.             *)

Min(S) == CHOOSE x \in S : \A y \in S : x <= y

\* The offsets after `from` at which character c occurs.
Later(inp, from, ch) == {j \in (from + 1)..(Len(inp) - 1) : inp[j + 1] = ch}

\* The offsets after `from` of the characters the validator f rejects.
Rejected(inp, from, f) == {j \in (from + 1)..(Len(inp) - 1) : inp[j + 1] \notin f}

\* The offsets at or after `from` at which the text kw occurs.
Occurs(inp, from, kw) == {j \in from..Len(inp) : StartsWith(inp, j, kw)}

OpensQuote == pc \in {"quote", "next_quote_str"} /\ IsQuote(At(input, begin))

ClosingQuotes == Later(input, begin, At(input, begin))

\* No character before offset j is rejected by the validator (the lexer has none).
Accepted(j) ==
    pc = "quote" => \A k \in Rejected(input, begin, valid) : k > j

\* C7: a quoted literal ends at the first later occurrence of its own quote
\* character; the span returned lies strictly between the two quotes (its
\* offset is the opening quote's + 1, its length the consumed length - 2) and
\* the cursor is left just after the closing quote.
C7_QuoteSpan ==
    (OpensQuote /\ ClosingQuotes # {} /\ Accepted(Min(ClosingQuotes))) =>
        LET close == Min(ClosingQuotes)
        IN  /\ out.tag = "Ok"
            /\ pos = close + 1
            /\ out.span.offset = begin + 1
            /\ out.span.len = (pos - begin) - 2
            /\ out.span.offset + out.span.len = close

\* C7 happens: a literal holding the other quote character was scanned.
C7_Witness ==
    /\ OpensQuote
    /\ out.tag = "Ok"
    /\ begin = 1
    /\ out.span.len = 2
    /\ \E j \in Later(input, begin, IF At(input, begin) = SQ THEN DQ ELSE SQ) : j < pos

\* C8: after an opening quote, EOF before the closing quote is Fatal ("expect
\* closing quote"), and so is a character the validator rejects before the
\* closing quote; neither is Recoverable.
C8_QuoteFatal ==
    (pc = "quote" /\ IsQuote(At(input, begin))) =>
        LET bad == Rejected(input, begin, valid) \ {j \in Rejected(input, begin, valid) :
                       \E k \in ClosingQuotes : k <= j}
        IN  /\ out.tag # "Recoverable"
            /\ (ClosingQuotes = {} /\ bad = {}) =>
                   (out.tag = "Fatal" /\ out.err = "QuoteSuffix"
                        /\ out.span = Span(Len(input), 0))
            /\ bad # {} => (out.tag = "Fatal" /\ out.err = "Validator")

\* C8 happens: one literal ran into EOF ...
C8_Witness ==
    /\ pc = "quote"
    /\ IsQuote(At(input, begin))
    /\ Len(input) > begin + 2
    /\ out.err = "QuoteSuffix"

\* ... and another was stopped by the validator although its closing quote follows.
C8_WitnessValidator ==
    /\ pc = "quote"
    /\ IsQuote(At(input, begin))
    /\ out.err = "Validator"
    /\ ClosingQuotes # {}

CommentBody == begin + Len(CommentOpen)

ScansComment ==
    /\ pc \in {"Comment_parse", "next_comment"}
    /\ StartsWith(input, begin, CommentOpen)

CommentEnd == <<"-", "-", ">">>

\* C9: the content of a comment is the text between `<!--` and the first
\* `-->` after it, and the cursor is left just after that `>`.
C9_CommentContent ==
    (ScansComment /\ Occurs(input, CommentBody, CommentEnd) # {}) =>
        LET e == Min(Occurs(input, CommentBody, CommentEnd))
        IN  /\ out.tag = "Ok"
            /\ out.span = Span(CommentBody, e - CommentBody)
            /\ pos = e + Len(CommentEnd)

\* C9 happens: extra dashes directly before `-->` were returned as content and
\* text follows the comment.
C9_Witness ==
    /\ ScansComment
    /\ out.tag = "Ok"
    /\ as_str(input, out.span) = <<"a", "-">>
    /\ pos < Len(input)

CDataBody == begin + Len(CDataOpen)

ScansCData ==
    /\ pc \in {"CData_parse", "next_cdata"}
    /\ StartsWith(input, begin, CDataOpen)

CDataEnd == <<"]", "]", ">">>

\* C10: the content of a CDATA section is the text between `<![CDATA[` and the
\* first `]]>` after it, and the cursor is left just after that `>`.
C10_CDataContent ==
    (ScansCData /\ Occurs(input, CDataBody, CDataEnd) # {}) =>
        LET e == Min(Occurs(input, CDataBody, CDataEnd))
        IN  /\ out.tag = "Ok"
            /\ out.span = Span(CDataBody, e - CDataBody)
            /\ pos = e + Len(CDataEnd)

\* C10 happens: `]]` not followed by `>` was returned as content.
C10_Witness ==
    /\ ScansCData
    /\ out.tag = "Ok"
    /\ as_str(input, out.span) = <<"]", "]", "a">>

-----------------------------------------------------------------------------
(* What parse_element is to do, stated on the text and the events.          *)

\* The text of a name: its prefix, when it has one, and its local part.
NameText(n) ==
    [prefix |-> IF n.prefix = <<>> THEN <<>> ELSE <<as_str(input, n.prefix[1])>>,
     local |-> as_str(input, n.local_name)]

Starts(evs, k) == Cardinality({i \in 1..k : evs[i].kind = "ElementStart"})
Ends(evs, k) == Cardinality({i \in 1..k : evs[i].kind = "ElementEnd"})

\* The number of elements open after the first k events.
Depth(evs, k) == Starts(evs, k) - Ends(evs, k)

\* The nearest unmatched ElementStart before the ElementEnd at j.
Partner(evs, j) ==
    LET open == {i \in 1..(j - 1) :
                    evs[i].kind = "ElementStart" /\ Depth(evs, i - 1) = Depth(evs, j)}
    IN  CHOOSE i \in open : \A k \in open : k <= i

\* An end tag is about to be compared with the innermost open start tag.
ComparesEnd == pc = "match" /\ event.kind = "ElementEnd" /\ elem_starts # <<>>

InnerStart == elem_starts[Len(elem_starts)]

\* C1: an end tag whose local name or prefix differs from the innermost open
\* start tag's (one of the two having no prefix included) gives the Fatal
\* Mismatch error carrying the start-tag name and the end-tag name.
C1_MismatchReported ==
    [][(ComparesEnd /\ NameText(InnerStart) # NameText(event.name)) =>
           /\ out'.tag = "Fatal"
           /\ out'.err = "Mismatch"
           /\ out'.names = <<InnerStart, event.name>>]_vars

\* The events returned so far close every element they open.
Balanced == events # <<>> /\ Depth(events, Len(events)) = 0

\* C2: an end tag that has no open start tag to match (it follows an element
\* that is already closed) gives the Fatal HangEndTag error carrying its name.
C2_HangEndTagReported ==
    (pc = "done" /\ Balanced /\ parse_element_end(input, pos).tag = "Ok") =>
        /\ out.tag = "Fatal"
        /\ out.err = "HangEndTag"
        /\ out.names = <<parse_element_end(input, pos).val.name>>

Emitted == pc = "content" \/ (pc = "done" /\ out.tag = "Ok")

\* The stack is empty before the root, and after each emitted event it holds
\* one name for each element that is open.
StackDepth ==
    /\ pc = "root" => elem_starts = <<>>
    /\ Emitted =>
           /\ Len(elem_starts) = Depth(events, Len(events))
           /\ \A k \in 1..Len(events) : Depth(events, k) >= 0

\* parse_element returns Ok only with the stack empty.
OkOnlyClosed == (pc = "done" /\ out.tag = "Ok") => elem_starts = <<>>

\* Every ElementEnd returned carries the name of the nearest unmatched
\* ElementStart before it.
EndsMatchStarts ==
    (pc = "done" /\ out.tag = "Ok") =>
        \A j \in 1..Len(events) :
            events[j].kind = "ElementEnd" =>
                NameText(events[j].name) = NameText(events[Partner(events, j)].name)

\* C3: the stack starts empty, grows by one on each ElementStart, shrinks by
\* one on each ElementEnd and is untouched by other events; parse_element
\* returns Ok only when it is empty, and the events returned are then properly
\* nested, every ElementEnd matching the nearest unmatched ElementStart.
C3_StackInvariant == StackDepth /\ OkOnlyClosed /\ EndsMatchStarts

SelfClosing ==
    { <<"<", "a", "/", ">">>, <<"<", "b", " ", "a", "=", SQ, SQ, " ", "/", ">">> }

Container == <<"<", "a", ">", "<", "/", "a", ">">>

Kinds(evs) == [i \in 1..Len(evs) |-> evs[i].kind]

\* C4: a self-closing tag never touches the stack; as a root it ends
\* parse_element at once with the single EmptyElement event, while a start tag
\* directly followed by its end tag gives ElementStart, ElementEnd with one
\* push and one pop.
C4_SelfClosing ==
    /\ pushes = Starts(events, Len(events))
    /\ \A sc \in SelfClosing :
           (pc = "done" /\ StartsWith(input, 0, sc)) =>
               /\ out.tag = "Ok"
               /\ Kinds(events) = <<"EmptyElement">>
               /\ pushes = 0 /\ pops = 0
               /\ pos = Len(sc)
    /\ (pc = "done" /\ StartsWith(input, 0, Container)) =>
           /\ out.tag = "Ok"
           /\ Kinds(events) = <<"ElementStart", "ElementEnd">>
           /\ pushes = 1 /\ pops = 1
           /\ pos = Len(Container)

\* C4 happens: a self-closing root with an attribute and whitespace before
\* `/>` ended parse_element although more text follows.
C4_Witness ==
    /\ pc = "done"
    /\ out.tag = "Ok"
    /\ Kinds(events) = <<"EmptyElement">>
    /\ Len(events[1].attrs) = 1
    /\ pos < Len(input)

-----------------------------------------------------------------------------
(* What parse_element_empty_or_start is to do with a start tag's parts.     *)

WellSeparated == \A i \in 1..Len(shape.attrs) : shape.attrs[i].sep # <<>>

\* The offset at which the terminator of the tag starts.
TermAt == Len(input) - Len(shape.term)

AttrText(a) == [name |-> NameText(a.name), value |-> as_str(input, a.value)]

\* The name and the attributes returned are those the tag was written with.
AsWritten(ev) ==
    /\ NameText(ev.name) = [prefix |-> shape.name.prefix, local |-> shape.name.local]
    /\ Len(ev.attrs) = Len(shape.attrs)
    /\ \A i \in 1..Len(shape.attrs) :
           AttrText(ev.attrs[i]) =
               [name |-> [prefix |-> shape.attrs[i].form.prefix,
                          local |-> shape.attrs[i].form.local],
                value |-> shape.attrs[i].form.value]

\* C5: after `<`, the name and the attribute list, `>` gives ElementStart,
\* `/>` gives EmptyElement and anything else, EOF included, is the Fatal error
\* expecting `>` or `/>`; name and attrs are the same in both successful cases.
C5_Terminator ==
    (pc = "tag" /\ WellSeparated) =>
        IF StartsWith(shape.term, 0, <<">">>)
        THEN /\ out.tag = "Ok" /\ out.val.kind = "ElementStart"
             /\ AsWritten(out.val) /\ pos = TermAt + 1
        ELSE IF StartsWith(shape.term, 0, <<"/", ">">>)
        THEN /\ out.tag = "Ok" /\ out.val.kind = "EmptyElement"
             /\ AsWritten(out.val) /\ pos = TermAt + 2
        ELSE /\ out.tag = "Fatal" /\ out.err = "ElementSuffix"
             /\ out.span.offset = TermAt

\* C5 happens: a tag with two attributes ran into `/` not followed by `>`.
C5_Witness ==
    /\ pc = "tag"
    /\ WellSeparated
    /\ Len(shape.attrs) = 2
    /\ shape.term = <<"/", " ", ">">>
    /\ out.tag = "Fatal"

\* An attribute follows the closing quote of the one before it directly.
Unseparated ==
    /\ Len(shape.attrs) > 1
    /\ shape.attrs[1].sep # <<>>
    /\ \E i \in 2..Len(shape.attrs) : shape.attrs[i].sep = <<>>

\* C6: a start tag in which an attribute follows the previous attribute's
\* closing quote without whitespace is rejected with a Fatal error.
C6_WhitespaceRequired == (pc = "tag" /\ Unseparated) => out.tag = "Fatal"

-----------------------------------------------------------------------------
(* The two failure tiers of Comment::parse and CData::parse.                *)

\* The opening literal and the terminator of the parser that ran.
Opening == IF pc = "Comment_parse" THEN CommentOpen ELSE CDataOpen
Terminator == IF pc = "Comment_parse" THEN CommentEnd ELSE CDataEnd
SuffixError == IF pc = "Comment_parse" THEN "CommentSuffix" ELSE "CDataSuffix"

\* C11: Comment::parse and CData::parse fail Recoverable, the cursor not
\* advanced, when the input does not start with the opening literal, and fail
\* Fatal with the span at EOF when the opening literal matched but EOF comes
\* before the terminator.
C11_FailureTiers ==
    pc \in {"Comment_parse", "CData_parse"} =>
        IF ~StartsWith(input, begin, Opening)
        THEN out.tag = "Recoverable" /\ pos = begin
        ELSE Occurs(input, begin + Len(Opening), Terminator) = {} =>
                 /\ out.tag = "Fatal"
                 /\ out.err = SuffixError
                 /\ out.span = Span(Len(input), 0)

\* C11 happens: a comment that holds `--` and `>` but no `-->` ran into EOF.
C11_Witness ==
    /\ pc = "Comment_parse"
    /\ StartsWith(input, begin, CommentOpen)
    /\ Occurs(input, CommentBody, <<"-", "-">>) # {}
    /\ At(input, Len(input) - 1) = ">"
    /\ out.tag = "Fatal"

\* ... and CData::parse declined an input that starts with `<!--`.
C11_WitnessRecoverable ==
    /\ pc = "CData_parse"
    /\ StartsWith(input, begin, CommentOpen)
    /\ out.tag = "Recoverable"

-----------------------------------------------------------------------------
(* What PI::parse is to do, stated on the text of the instruction.          *)

\* The characters a target can hold after its first one.
TargetChars == {ch \in Char : ch \notin {" ", "?", ">", "<", "=", "/", DQ, SQ, "[", "]", "!"}}

RECURSIVE TargetRun(_)
TargetRun(j) ==
    IF j < Len(input) /\ input[j + 1] \in TargetChars THEN TargetRun(j + 1) ELSE j

\* The offset just after the target, and the target's text.
TargetEnd == TargetRun(begin + Len(PIOpen))
TargetText == SubSeq(input, begin + Len(PIOpen) + 1, TargetEnd)

\* `xml` in every letter case.
ReservedWords ==
    {<<x, m, l>> : x \in {"x", "X"}, m \in {"m", "M"}, l \in {"l", "L"}}

C12_WitnessLonger ==
    /\ pc = "PI_parse"
    /\ TargetText = <<"x", "m", "l", "-", "a">>
    /\ out.tag = "Ok"

RECURSIVE SpaceRun(_)
SpaceRun(j) ==
    IF j < Len(input) /\ input[j + 1] \in Spaces THEN SpaceRun(j + 1) ELSE j

\* The offset of the first character after the whitespace that follows the
\* target, and the offsets at which `?>` occurs from there on.
BodyStart == SpaceRun(TargetEnd)
PIEnd == <<"?", ">">>
PIEnds == Occurs(input, BodyStart, PIEnd)

\* A target that is not reserved, whitespace, a non-empty body and `?>`.
HasBody ==
    /\ pc = "PI_parse"
    /\ TargetText \notin ReservedWords
    /\ BodyStart > TargetEnd
    /\ PIEnds # {}
    /\ Min(PIEnds) > BodyStart

BodyReturned ==
    /\ out.tag = "Ok"
    /\ out.val = <<Span(BodyStart, Min(PIEnds) - BodyStart)>>
    /\ pos = Min(PIEnds) + Len(PIEnd)

\* C13: for `<?target`, whitespace, a non-empty body and `?>`, PI::parse
\* returns as unparsed the span from the first character after the whitespace
\* up to the first `?>`, whatever the characters of the body are.
C13_BodySpan == HasBody => BodyReturned

\* The same for the bodies that do not begin with `?`.
BodySpanUnlessQuestion == (HasBody /\ At(input, BodyStart) # "?") => BodyReturned

\* PI::parse ran on a target that is not reserved.
ParsedTarget == pc = "PI_parse" /\ TargetText \notin ReservedWords

\* C14: a target directly followed by `?>` gives unparsed = None; a target
\* followed by whitespace and then directly by `?>` is Fatal PIBody; a target
\* followed by neither whitespace nor `?>` makes the parse fail.
C14_AfterTarget ==
    ParsedTarget =>
        IF StartsWith(input, TargetEnd, PIEnd)
        THEN /\ out.tag = "Ok" /\ out.val = <<>>
             /\ out.span = Span(begin + Len(PIOpen), Len(TargetText))
             /\ pos = TargetEnd + Len(PIEnd)
        ELSE IF BodyStart > TargetEnd
        THEN StartsWith(input, BodyStart, PIEnd) =>
                 /\ out.tag = "Fatal" /\ out.err = "PIBody"
                 /\ out.span = Span(BodyStart, 0)
        ELSE out.tag \in {"Recoverable", "Fatal"}

\* C14 happens: whitespace and then `?>` followed the target, with more text
\* after it.
C14_Witness ==
    /\ ParsedTarget
    /\ BodyStart > TargetEnd
    /\ StartsWith(input, BodyStart, PIEnd)
    /\ Len(input) > BodyStart + Len(PIEnd)
    /\ out.err = "PIBody"

\* ... the target itself was followed by `?>` ...
C14_WitnessNone ==
    /\ ParsedTarget
    /\ StartsWith(input, TargetEnd, PIEnd)
    /\ out.tag = "Ok"

\* ... and `?` alone followed the target.
C14_WitnessNeither ==
    /\ ParsedTarget
    /\ StartsWith(input, TargetEnd, <<"?", " ", ">">>)
    /\ out.tag = "Recoverable"

-----------------------------------------------------------------------------
(* What the DOCTYPE scanners are to do, stated on the text.                 *)

\* The offset just after the `<!DOCTYPE` keyword.
DeclBody == begin + Len(DocTypeOpen)

\* The quote character of the literal that is open at offset k of the
\* declaration, None outside of literals.
RECURSIVE InQuote(_)
InQuote(k) ==
    IF k <= DeclBody THEN None
    ELSE LET q == InQuote(k - 1)
             ch == input[k]
         IN  IF q = None THEN (IF ch \in {SQ, DQ} THEN ch ELSE None)
             ELSE IF ch = q THEN None ELSE q

\* The offsets before k at which `ch` stands outside of every literal.
Unquoted(ch, k) == {j \in DeclBody..(k - 1) : input[j + 1] = ch /\ InQuote(j) = None}

\* The nesting of the text before offset k.
Nesting(k) == 1 + Cardinality(Unquoted("<", k)) - Cardinality(Unquoted(">", k))

\* The offsets of the unquoted `>` that bring the nesting to 0.
DeclEnds == {j \in Unquoted(">", Len(input)) : Nesting(j + 1) = 0}

ScansDecl ==
    /\ pc \in {"doctype", "lex_doctype", "parse_doc_type_decl", "next_doc_type"}
    /\ StartsWith(input, begin, DocTypeOpen)

\* C15: parse_doc_type_decl on a balanced declaration returns one span that
\* starts just after the `<!DOCTYPE` keyword and ends just before the final
\* `>`.
C15_DocTypeSpan ==
    (ScansDecl /\ pc = "parse_doc_type_decl" /\ DeclEnds # {}) =>
        /\ out.tag = "Ok"
        /\ out.span = Span(DeclBody, Min(DeclEnds) - DeclBody)

\* The same span is what XmLexer::next_doc_type returns.
LexerDocTypeSpan ==
    (ScansDecl /\ pc = "next_doc_type" /\ DeclEnds # {}) =>
        /\ out.tag = "Ok"
        /\ out.span = Span(DeclBody, Min(DeclEnds) - DeclBody)

\* The counter of the scanner that is running or has ended.
Counter == IF pc \in {"doctype", "parse_doc_type_decl"} THEN c ELSE unclosed

\* C16: the nesting counter starts at 1, counts +1 for each `<` and -1 for each
\* `>` outside of quoted literals and nothing for those inside; the
\* declaration ends exactly at the first unquoted `>` that brings it to 0, and
\* the counter is never negative.
C16_NestingCounter ==
    /\ c >= 0 /\ unclosed >= 0
    /\ ScansDecl =>
           /\ Counter = Nesting(pos)
           /\ pc \in {"doctype", "lex_doctype"} =>
                  /\ Counter >= 1
                  /\ \A j \in DeclEnds : j >= pos
           /\ pc \in {"parse_doc_type_decl", "next_doc_type"} =>
                  /\ out.tag = "Ok" <=> DeclEnds # {}
                  /\ out.tag = "Ok" => (Counter = 0 /\ pos = Min(DeclEnds) + 1)

\* C16 happens: a declaration with `<` inside a literal ended at the `>` after
\* the literal, before a further `>`.
C16_Witness ==
    /\ ScansDecl
    /\ out.tag = "Ok"
    /\ StartsWith(input, DeclBody, <<DQ, "<", DQ, ">", ">">>)
    /\ pos = DeclBody + 4

\* ... and a nested declaration with a quoted `>` was counted.
C16_WitnessNested ==
    /\ ScansDecl
    /\ StartsWith(input, DeclBody, <<"<", SQ, ">", SQ, ">">>)
    /\ pos = DeclBody + 5
    /\ Counter = 1

\* C17: parse_doc_type_decl fails Fatal (DocType, expecting `>`) when EOF is
\* reached after `<!DOCTYPE` with the counter above 0, fails Fatal when a
\* literal of the declaration is unterminated, and fails Recoverable only
\* when the input does not start with `<!DOCTYPE`.
C17_DocTypeFailures ==
    pc = "parse_doc_type_decl" =>
        /\ out.tag = "Recoverable" <=> ~StartsWith(input, begin, DocTypeOpen)
        /\ (StartsWith(input, begin, DocTypeOpen) /\ DeclEnds = {}) =>
               /\ out.tag = "Fatal"
               /\ InQuote(Len(input)) = None =>
                      (out.err = "DocTypeSuffix" /\ pos = Len(input) /\ c > 0)
               /\ InQuote(Len(input)) # None => out.err = "DocTypeQuote"

\* C17 happens: EOF came inside a nested declaration that follows a literal.
C17_Witness ==
    /\ pc = "parse_doc_type_decl"
    /\ StartsWith(input, begin, DocTypeOpen)
    /\ out.err = "DocTypeSuffix"
    /\ c = 2
    /\ Occurs(input, DeclBody, <<DQ, "<", DQ>>) # {}

\* ... and a literal was left open.
C17_WitnessQuote ==
    /\ pc = "parse_doc_type_decl"
    /\ out.err = "DocTypeQuote"
    /\ Unquoted("<", Len(input)) # {}

-----------------------------------------------------------------------------
(* Names: the colon, the first character, and the two spans.                *)

\* The end of the run of name characters that starts at offset j.
RECURSIVE NameRun(_)
NameRun(j) ==
    IF j < Len(input) /\ input[j + 1] \in NameChars THEN NameRun(j + 1) ELSE j

\* The first run, the colon after it, and the run after the colon.
FirstEnd == NameRun(begin)
HasColon == NameStartChar(At(input, begin)) /\ At(input, FirstEnd) = ":"
LocalEnd == NameRun(FirstEnd + 1)

\* C18: when a `:` follows the first run of name characters, Name::parse
\* consumes it and requires a non-empty local_name after it: with nothing
\* after the colon (`start-name:`) the parse is Fatal, expecting the
\* local_name, and a successful parse has consumed the colon and more.
C18_ColonLocalName ==
    (pc = "Name1_parse" /\ HasColon) =>
        /\ LocalEnd = FirstEnd + 1 => out.tag = "Fatal" /\ out.err = "LocalName"
        /\ out.tag = "Ok" => pos > FirstEnd + 1

\* What Name::parse of misc.rs does instead: the colon is one more name
\* character, and the single span runs over every colon of the name.
ColonIsNameChar ==
    (pc = "Name1_parse" /\ HasColon) =>
        /\ out.tag = "Ok"
        /\ out.span.offset = begin
        /\ pos >= FirstEnd + 1
        /\ \A k \in begin .. pos - 1 : input[k + 1] \in NameChars \cup {":"}

\* The first characters the grammar does not let a name start with.
NotNameStart == {":", "1", "-", "."}

\* C19: a name starts with a letter or `_`: Name::parse and the lexer's
\* next_name reject a first character `:`, a digit, `-` or `.`, and the
\* cursor stays where it was.
C19_NameStart ==
    (pc \in {"Name1_parse", "next_name"} /\ At(input, begin) \in NotNameStart) =>
        /\ out.tag # "Ok"
        /\ pos = begin

\* What holds of Name::parse of misc.rs: a digit, `-` or `.` in front is
\* Recoverable and nothing is consumed.
Name1RejectsDigitDashDot ==
    (pc = "Name1_parse" /\ At(input, begin) \in NotNameStart \ {":"}) =>
        /\ out.tag = "Recoverable"
        /\ pos = begin

\* The text Name::parse consumed.
Consumed == SubSeq(input, begin + 1, pos)

\* C20: a parsed Name with a prefix has the prefix span end one character
\* before the local_name span starts, that character is `:`, and prefix, `:`
\* and local_name spell the consumed text; a Name without a colon has no
\* prefix and its local_name is the whole consumed text.
C20_NameRoundTrip ==
    (pc = "Name_parse" /\ out.tag = "Ok") =>
        IF out.val.prefix # <<>>
        THEN /\ out.val.prefix[1].offset + out.val.prefix[1].len + 1
                    = out.val.local_name.offset
             /\ input[out.val.prefix[1].offset + out.val.prefix[1].len + 1] = ":"
             /\ as_str(input, out.val.prefix[1]) \o <<":">>
                    \o as_str(input, out.val.local_name) = Consumed
        ELSE /\ At(input, pos) # ":"
             /\ out.val.local_name = Span(begin, pos - begin)
             /\ as_str(input, out.val.local_name) = Consumed

\* `a:a` parsed at offset 1: prefix `a`, local_name `a`.
C20_Witness ==
    /\ pc = "Name_parse"
    /\ out.tag = "Ok"
    /\ begin = 1
    /\ Consumed = <<"a", ":", "a">>
    /\ out.val.local_name = Span(3, 1)
    /\ out.val.prefix = <<Span(1, 1)>>

\* A name without a colon, stopped by a delimiter.
C20_WitnessNoPrefix ==
    /\ pc = "Name_parse"
    /\ out.tag = "Ok"
    /\ out.val.prefix = <<>>
    /\ Consumed = <<"_", "a", "-">>
    /\ At(input, pos) = ">"

-----------------------------------------------------------------------------
(* The XML declaration, by the parts it was written with.                   *)

PartKinds == [i \in 1..Len(shape.parts) |-> shape.parts[i].kind]

\* Encoding before standalone, each at most once.
InOrder ==
    PartKinds \in {<<>>, <<"encoding">>, <<"standalone">>, <<"encoding", "standalone">>}

Flawless(i) == shape.parts[i].flaw = "none"

DeclCloses == shape.term \in {<<"?", ">">>, <<" ", "?", ">">>, <<"?", ">", "<", "a", "/", ">">>}

WellFormedDecl ==
    /\ shape.version.flaw = "none"
    /\ \A i \in 1..Len(shape.parts) : Flawless(i)
    /\ InOrder
    /\ DeclCloses

\* The error a flawed VersionInfo is to give.
VersionError ==
    [keyword |-> "VersionLitVer", value |-> "VersionVerStr", quote |-> "VersionQuote",
     unmatched |-> "VersionQuote"]

\* C21: after `<?xml` and whitespace, a missing `version` keyword, a literal
\* other than 1.0 and 1.1, a missing opening quote and a closing quote that
\* differs from the opening one are each a Fatal Version error: no XmlDecl.
C21_VersionFatal ==
    (pc = "parse_xml_decl" /\ shape.version.flaw \in DOMAIN VersionError) =>
        /\ out.tag = "Fatal"
        /\ out.err = VersionError[shape.version.flaw]

\* `<?xml version="1.0'` with a standalone declaration after it.
C21_Witness ==
    /\ pc = "parse_xml_decl"
    /\ shape.version.flaw = "unmatched"
    /\ Len(shape.parts) = 1
    /\ DeclCloses
    /\ out.tag = "Fatal"
    /\ out.span = Span(18, 1)

\* C22: encoding and standalone are accepted in that order only and at most
\* once each: standalone before encoding, or either of them twice, is an
\* error and no XmlDecl.
C22_EncodingBeforeStandalone ==
    (pc = "parse_xml_decl" /\ ~InOrder /\ \A i \in 1..Len(shape.parts) : Flawless(i)) =>
        out.tag \in {"Recoverable", "Fatal"}

\* `<?xml version='1.0' standalone='yes' encoding='a'?>`
C22_Witness ==
    /\ pc = "parse_xml_decl"
    /\ shape.version.flaw = "none"
    /\ PartKinds = <<"standalone", "encoding">>
    /\ Flawless(1) /\ Flawless(2)
    /\ DeclCloses
    /\ out.tag = "Recoverable"

\* A repeated encoding, both written well.
C22_WitnessTwice ==
    /\ pc = "parse_xml_decl"
    /\ shape.version.flaw = "none"
    /\ PartKinds = <<"encoding", "encoding">>
    /\ Flawless(1) /\ Flawless(2)
    /\ DeclCloses
    /\ out.tag = "Recoverable"

\* The value written for a kind of declaration, none when it is absent.
Written(kind) ==
    IF \E i \in 1..Len(shape.parts) : shape.parts[i].kind = kind
    THEN <<shape.parts[CHOOSE i \in 1..Len(shape.parts) : shape.parts[i].kind = kind].value>>
    ELSE <<>>

AsFlag(v) == IF v = <<>> THEN <<>> ELSE <<v[1] = <<"y", "e", "s">>>>

\* A standalone declaration with a value other than yes and no, after parts
\* that are well written.
BadFlagAt(i) ==
    /\ shape.version.flaw = "none"
    /\ shape.parts[i].kind = "standalone"
    /\ shape.parts[i].flaw = "value"
    /\ \A j \in 1..(i - 1) : Flawless(j) /\ shape.parts[j].kind = "encoding"
    /\ i <= 2

\* C23: a well-formed declaration parses to the version, the encoding and the
\* standalone flag it was written with, each None when absent, with either
\* quote, with whitespace around `=` and before `?>`; a standalone value other
\* than yes and no is Fatal.
C23_DeclFields ==
    pc = "parse_xml_decl" =>
        /\ WellFormedDecl =>
               /\ out.tag = "Ok"
               /\ out.val.version = shape.version.value
               /\ out.val.encoding = Written("encoding")
               /\ out.val.standalone = AsFlag(Written("standalone"))
               /\ out.val.span = Span(0, pos)
               /\ SubSeq(input, pos - 1, pos) = <<"?", ">">>
        /\ (\E i \in 1..Len(shape.parts) : BadFlagAt(i)) =>
               out.tag = "Fatal" /\ out.err = "StandaloneSDBool"

\* `<?xml version = "1.1" encoding = "A-1" standalone = "no" ?>`
C23_Witness ==
    /\ pc = "parse_xml_decl"
    /\ WellFormedDecl
    /\ shape.version.value = "Ver11"
    /\ Written("encoding") = <<<<"A", "-", "1">>>>
    /\ Written("standalone") = <<<<"n", "o">>>>
    /\ shape.term = <<" ", "?", ">">>
    /\ out.tag = "Ok"

\* Only the version.
C23_WitnessNone ==
    /\ pc = "parse_xml_decl"
    /\ WellFormedDecl
    /\ shape.parts = <<>>
    /\ out.tag = "Ok"
    /\ out.val.encoding = <<>> /\ out.val.standalone = <<>>

\* The quote that opens the value of part i, and whether a later part has it.
OpeningQuote(i) ==
    shape.parts[i].text[Min({k \in 1..Len(shape.parts[i].text) :
                                 IsQuote(shape.parts[i].text[k])})]

ClosedLater(i) ==
    \E j \in (i + 1)..Len(shape.parts) : \E k \in 1..Len(shape.parts[j].text) :
        shape.parts[j].text[k] = OpeningQuote(i)

\* Part i is the first flawed one, its keyword is where its parser looks for
\* it, and its flaw is one of: no `=`, no opening quote, a quote that nothing
\* closes, no encoding name, a flag other than yes and no.
CommittedFlawAt(i) ==
    /\ shape.version.flaw = "none"
    /\ \A j \in 1..(i - 1) : Flawless(j)
    /\ SubSeq(PartKinds, 1, i) \in {<<"encoding">>, <<"standalone">>,
                                    <<"encoding", "standalone">>}
    /\ \/ shape.parts[i].flaw \in {"eq", "quote", "empty", "value"}
       \/ /\ shape.parts[i].flaw = "unmatched"
          /\ \/ shape.parts[i].kind = "standalone"
             \/ ~ClosedLater(i)

\* C24: once the `encoding` or `standalone` keyword has matched, a missing
\* `=`, a missing or unmatched quote, an empty encoding name and a flag other
\* than yes and no fail the whole declaration Fatal: the optional parser does
\* not turn them into None.
C24_FatalNotAbsorbed ==
    (pc = "parse_xml_decl" /\ \E i \in 1..Len(shape.parts) : CommittedFlawAt(i)) =>
        out.tag = "Fatal"

\* `encoding 'a'` after the version and a well written part after it.
C24_Witness ==
    /\ pc = "parse_xml_decl"
    /\ Len(shape.parts) = 2
    /\ CommittedFlawAt(1)
    /\ shape.parts[1].kind = "encoding" /\ shape.parts[1].flaw = "eq"
    /\ Flawless(2)
    /\ DeclCloses
    /\ out.tag = "Fatal" /\ out.err = "Eq"

\* `encoding='a"` with no `'` after it, followed by ` standalone = "no"`.
C24_WitnessUnmatched ==
    /\ pc = "parse_xml_decl"
    /\ Len(shape.parts) = 2
    /\ CommittedFlawAt(1)
    /\ shape.parts[1].kind = "encoding" /\ shape.parts[1].flaw = "unmatched"
    /\ shape.parts[2].kind = "standalone"
    /\ out.tag = "Fatal" /\ out.err = "EncodingQuote"

\* C25: read_xml returns Ok with the events of a well-formed document, and
\* Err with an error kind and a span on a malformed one.
C25_ReadXml ==
    pc = "read_xml" =>
        IF WellFormedDecl /\ shape.term = <<"?", ">", "<", "a", "/", ">">>
        THEN out.tag = "Ok"
        ELSE out.tag = "Err"

\* What read_xml does: the error of a declaration that does not parse, and
\* todo!() after one that does.
ReadXmlStopsAfterDecl ==
    pc = "read_xml" =>
        IF WellFormedDecl THEN out.tag = "Panic" ELSE out.tag \in {"Err", "Panic"}

-----------------------------------------------------------------------------
(* The attributes of a start tag.                                           *)

\* The value span v lies between two quotes of the same kind, with none of
\* that kind inside.
BetweenQuotes(v) ==
    /\ v.offset >= 1
    /\ IsQuote(input[v.offset])
    /\ At(input, v.offset + v.len) = input[v.offset]
    /\ \A k \in (v.offset + 1)..(v.offset + v.len) : input[k] # input[v.offset]

\* The `=` of an attribute lies between its name and the opening quote, with
\* nothing but whitespace around it.
EqBetween(a) ==
    \E e \in (a.name.local_name.offset + a.name.local_name.len)..(a.value.offset - 2) :
        /\ input[e + 1] = "="
        /\ \A k \in (a.name.local_name.offset + a.name.local_name.len)..(a.value.offset - 2) :
               k # e => input[k + 1] = " "

\* C30: each attribute of a parsed start tag has a value span without the two
\* quotes around it, the opening quote being the one that ends it, and the
\* attributes come in source order, each as written, whitespace around `=`
\* allowed.
C30_AttrValues ==
    (pc = "tag" /\ out.tag = "Ok") =>
        /\ Len(out.val.attrs) = Len(shape.attrs)
        /\ \A i \in 1..Len(out.val.attrs) :
               /\ BetweenQuotes(out.val.attrs[i].value)
               /\ EqBetween(out.val.attrs[i])
               /\ as_str(input, out.val.attrs[i].value) = shape.attrs[i].form.value
        /\ \A i \in 1..(Len(out.val.attrs) - 1) :
               out.val.attrs[i].value.offset + out.val.attrs[i].value.len
                   < out.val.attrs[i + 1].name.local_name.offset

\* `<a y = 'a' x:b="'">`: whitespace around `=`, the other quote in a value.
C30_Witness ==
    /\ pc = "tag"
    /\ out.tag = "Ok"
    /\ Len(out.val.attrs) = 2
    /\ as_str(input, out.val.attrs[1].value) = <<"a">>
    /\ input[out.val.attrs[1].value.offset - 1] = " "
    /\ as_str(input, out.val.attrs[2].value) = <<SQ>>

-----------------------------------------------------------------------------
(* Lines and columns.                                                       *)

\* The line breaks in front of offset off, as 1-based indices.
BreaksBefore(off) == {k \in 1..off : input[k] = NL}

\* The offset at which the line of offset off starts.
LineStart(off) ==
    IF BreaksBefore(off) = {} THEN 0
    ELSE CHOOSE k \in BreaksBefore(off) : \A j \in BreaksBefore(off) : j <= k

\* C29: the line of every span a parser produces is 1 + the number of line
\* breaks in front of its offset and its column is 1 + the number of
\* characters between the last of them (or the start of the input) and its
\* offset; both are at least 1.
C29_LineColumn ==
    pc \in {"WS_parse", "quote", "parse_attr"} =>
        /\ Position(input, out.span.offset).line
               = 1 + Cardinality(BreaksBefore(out.span.offset))
        /\ Position(input, out.span.offset).col
               = 1 + out.span.offset - LineStart(out.span.offset)
        /\ Position(input, out.span.offset).line >= 1
        /\ Position(input, out.span.offset).col >= 1

\* A quoted literal on the second line, two characters in: line 2, column 3.
C29_Witness ==
    /\ pc = "quote"
    /\ out.tag = "Ok"
    /\ Cardinality(BreaksBefore(out.span.offset)) = 1
    /\ out.span.offset = LineStart(out.span.offset) + 2
    /\ Position(input, out.span.offset) = [line |-> 2, col |-> 3]

\* `a='a'` after a line break: the value is at line 2, column 4.
C29_WitnessAttr ==
    /\ pc = "parse_attr"
    /\ out.tag = "Ok"
    /\ begin = 0
    /\ input[1] = NL
    /\ Position(input, out.val.value.offset) = [line |-> 2, col |-> 4]

-----------------------------------------------------------------------------
(* The lexer as an iterator.                                                *)

\* A call of next_token that returned a token moved the cursor forward.
TokenAdvances == out'.tag = "Ok" => pos' > pos

\* A call in CharData mode that returns no character data has gone on in
\* Markup mode: it returns markup, and stays in Markup mode unless what it
\* returns is a CDATA section or a comment.
EmptyScanToMarkup ==
    lexer_state = "CharData" /\ out'.kind # "CharData" =>
        /\ At(input, pos) \in {"<", None}
        /\ out'.kind \in {"CData", "Comment"} \/ lexer_state' = "Markup"

\* C27: calling next_token again and again on a finite input comes to an end:
\* a call that returns a token has moved the cursor forward, so there are
\* never more tokens than bytes, Ok(None) is returned at the end of the input
\* only, and the iteration reaches Ok(None) or Err; a scan in CharData mode
\* that finds nothing goes on in Markup mode within the same call.
C27_LexerTerminates ==
    /\ [][TokenAdvances]_vars
    /\ [](Len(tokens) <= Len(input))
    /\ [](out.tag = "OkNone" => pos = Len(input))
    /\ [][EmptyScanToMarkup]_vars
    /\ <>(pc = "done" /\ out.tag \in {"OkNone", "Err"})

\* `<>=` and the like: as many tokens as bytes, then Ok(None).
C27_Witness ==
    /\ pc = "done"
    /\ out.tag = "OkNone"
    /\ Len(input) >= 3
    /\ Len(tokens) = Len(input)

\* `<!----><?`: the comment leaves the lexer in CharData mode, the next call
\* finds no character data at `<` and returns the markup.
C27_WitnessEmptyScan ==
    /\ pc = "done"
    /\ out.tag = "OkNone"
    /\ Len(tokens) = 2
    /\ tokens[1].kind = "Comment"
    /\ tokens[2].kind = "PIStart"

Inside(s) ==
    /\ span_offset <= s.offset
    /\ s.offset + s.len <= span_offset + Len(input)

\* C28: every token span lies inside the input, the cursor never passes the
\* end of the input, and the spans of successive tokens do not overlap and
\* have strictly increasing offsets.
C28_TokenSpans ==
    /\ pos <= Len(input)
    /\ \A i \in 1..Len(tokens) : Inside(tokens[i].span)
    /\ \A i \in 1..(Len(tokens) - 1) :
           /\ tokens[i].span.offset + tokens[i].span.len <= tokens[i + 1].span.offset
           /\ tokens[i].span.offset < tokens[i + 1].span.offset

\* A fragment at offset 10: `<!---->a`.
C28_Witness ==
    /\ pc = "done"
    /\ span_offset = 10
    /\ Len(tokens) = 2
    /\ tokens[1] = [kind |-> "Comment", span |-> Span(14, 0)]
    /\ tokens[2] = [kind |-> "CharData", span |-> Span(17, 1)]

-----------------------------------------------------------------------------
(* The document-level states of Reader.                                     *)

\* The reader is at a root element that is an empty element, or a start tag.
AtEmptyRoot == read_state = "RootElement" /\ pos = 0 /\ input = <<"<", "a", "/", ">">>
AtOpenRoot == read_state = "RootElement" /\ pos = 0 /\ input = <<"<", "a", ">">>

\* The reader is after the root element and no comment, processing
\* instruction or whitespace starts at the cursor.
AtNoMisc == read_state = "MiscAfterElement" /\ At(input, pos) \notin {"<", " "}

\* C26: a call of next_node that returns the root element leaves the reader
\* in MiscAfterElement when the root is an empty element and in Element
\* otherwise, and a call after the root element, where no further misc item
\* matches, leaves it in Eof with Ok(None).
C26_DocumentStates ==
    [][/\ AtEmptyRoot => (out'.tag = "Ok" /\ read_state' = "MiscAfterElement")
       /\ AtOpenRoot => (out'.tag = "Ok" /\ read_state' = "Element")
       /\ AtNoMisc => (out'.tag = "OkNone" /\ read_state' = "Eof")]_vars

\* What next_node does: in the four states whose readers are todo!() it
\* panics, and no call changes the state.
ReaderStaysPut ==
    [][/\ read_state' = read_state
       /\ read_state \in {"MiscBeforeElement", "RootElement", "Element", "MiscAfterElement"}
              => out'.tag = "Panic"
       /\ read_state = "Eof" => out'.tag = "OkNone"
       /\ read_state = "XmlDecl" => out'.tag \in {"Err", "Panic"}]_vars


-----------------------------------------------------------------------------
(* The scan loops of the parsers of misc.rs.                                *)

\* C38: PI::parse does not abort: on every input it returns Ok or an error,
\* and a body that reaches the end of the input before `?>` is an error.
C38_NoAbort ==
    pc = "PI_parse" => out.tag \in {"Ok", "Recoverable", "Fatal"}

\* What PI::parse does with a body that has characters and no `?` after
\* them: the `expect` on take_while fails.
BodyWithoutQuestionAborts ==
    (pc = "PI_parse" /\ input = <<"<", "?", "p", " ", "a">>) => out.tag = "Panic"


-----------------------------------------------------------------------------
(* Character data.                                                          *)

\* The offset of the first `<` at or after `begin`, or the end of the input.
TextEnd == Min(Occurs(input, begin, <<"<">>) \cup {Len(input)})

\* C34: CharData::parse returns the run of characters from the cursor up to
\* the next `<` or the end of the input and leaves the cursor there; when the
\* run is empty it fails Recoverable and leaves the cursor where it was.
\* parse_content reports such a run, one of whitespace included, as CharData.
C34_CharDataRun ==
    /\ pc = "CharData_parse" =>
           IF TextEnd > begin
           THEN out.tag = "Ok" /\ out.span = Span(begin, TextEnd - begin) /\ pos = TextEnd
           ELSE out.tag = "Recoverable" /\ pos = begin
    /\ (pc = "parse_content" /\ TextEnd > begin) =>
           /\ out.tag = "Ok"
           /\ out.val.kind = "CharData"
           /\ out.val.span = Span(begin, TextEnd - begin)
           /\ pos = TextEnd

\* ` \n` before a `<`, read from offset 1: the run of whitespace.
C34_Witness ==
    /\ pc = "CharData_parse"
    /\ input = <<"a", " ", NL, "<", "a">>
    /\ begin = 1
    /\ out.tag = "Ok" /\ out.span = Span(1, 2)
    /\ pos = 3

\* The same run as an event of the content.
C34_WitnessContent ==
    /\ pc = "parse_content"
    /\ input = <<" ", NL, "<">>
    /\ out.tag = "Ok" /\ out.val.kind = "CharData" /\ out.val.span = Span(0, 2)

\* At a `<` the parser fails and consumes nothing.
C34_WitnessEmpty ==
    /\ pc = "CharData_parse"
    /\ input = <<"a", "<">>
    /\ begin = 1
    /\ out.tag = "Recoverable" /\ pos = 1


-----------------------------------------------------------------------------
(* The alternatives of parse_content.                                       *)

\* The piece of content the input was put together from starts with `<` and
\* is not a start tag: the element-start alternative fails after the `<`.
LaterAlternative == shape.piece.kind \in {"ElementEnd", "CData", "PI", "Comment"}

\* The offset, within its piece, of the span an event of the kind k carries:
\* the name of an end tag, the target of a PI, the content of a comment or a
\* CDATA section.
SpanStart(k) ==
    CASE k = "ElementEnd" -> 2
      [] k = "PI" -> 2
      [] k = "Comment" -> Len(CommentOpen)
      [] k = "CData" -> Len(CDataOpen)

EventSpan(ev) ==
    CASE ev.kind = "ElementEnd" ->
             IF ev.name.prefix = <<>> THEN ev.name.local_name ELSE ev.name.prefix[1]
      [] ev.kind = "PI" -> ev.name.local_name
      [] OTHER -> ev.span

\* C32: an end tag, a CDATA section, a PI and a comment are each parsed by
\* their alternative of parse_content from the position the call started
\* at, after the element-start alternative failed behind the `<`: the event
\* has the kind of the piece, its span is counted from the start of the
\* input, and the cursor is left after the piece.
C32_AlternationRestores ==
    (pc = "parse_content" /\ LaterAlternative) =>
        /\ out.tag = "Ok"
        /\ out.val.kind = shape.piece.kind
        /\ EventSpan(out.val).offset = begin + SpanStart(shape.piece.kind)
        /\ pos = begin + Len(shape.piece.text)

\* `a</x:a >`: the end tag after a letter.
C32_Witness ==
    /\ pc = "parse_content"
    /\ shape.pre = <<"a">>
    /\ shape.piece.text = <<"<", "/", "x", ":", "a", " ", ">">>
    /\ out.tag = "Ok"
    /\ out.val.kind = "ElementEnd"
    /\ out.val.name.prefix = <<Span(3, 1)>>
    /\ pos = 8

\* `<!--a--><`: the comment, the last alternative.
C32_WitnessComment ==
    /\ pc = "parse_content"
    /\ input = CommentOpen \o <<"a", "-", "-", ">", "<">>
    /\ out.tag = "Ok"
    /\ out.val.kind = "Comment"
    /\ out.val.span = Span(4, 1)
    /\ pos = 8


-----------------------------------------------------------------------------
(* Elements left open.                                                      *)

\* The ElementStart events that no later ElementEnd is the partner of.
OpenIndices ==
    {i \in 1..Len(events) :
        /\ events[i].kind = "ElementStart"
        /\ \A j \in (i + 1)..Len(events) :
               events[j].kind = "ElementEnd" => Partner(events, j) # i}

Nth(S, k) == CHOOSE x \in S : Cardinality({y \in S : y < x}) = k - 1

\* Their names, outermost first.
OpenNames == [k \in 1..Cardinality(OpenIndices) |-> events[Nth(OpenIndices, k)].name]

\* The input ends at offset p, or what is there starts none of the
\* alternatives of parse_content: `<!` that opens no comment and no CDATA
\* section.
NoContentAt(p) ==
    \/ p = Len(input)
    \/ /\ StartsWith(input, p, <<"<", "!">>)
       /\ ~StartsWith(input, p, CommentOpen)
       /\ ~StartsWith(input, p, CDataOpen)

UnclosedReported ==
    (pc = "content" /\ NoContentAt(pos)) =>
        /\ pc' = "done"
        /\ out'.tag = "Fatal"
        /\ out'.err = "Unclosed"
        /\ out'.names = OpenNames
        /\ out'.names # <<>>
        /\ out'.pos = pos

C39_WitnessNoContent ==
    /\ pc = "done"
    /\ input = <<"<", "a", ">", "t", "<", "!">>
    /\ out.tag = "Fatal" /\ out.err = "Unclosed"
    /\ Len(out.names) = 1
    /\ out.pos = 4


-----------------------------------------------------------------------------
(* The modes of the lexer.                                                  *)

\* A call of next_token, by the mode it starts in and the token it returns.
ModeStep ==
    /\ out'.kind = "CharData" =>
           /\ lexer_state = "CharData"
           /\ out'.span.len > 0
           /\ lexer_state' = "Markup"
    /\ out'.kind \in {"CData", "Comment"} => lexer_state' = "CharData"
    /\ out'.kind \notin {"CData", "Comment"} => lexer_state' = "Markup"
    /\ (lexer_state = "Markup" /\ At(input, pos) \in Letters) => out'.kind = "Name"
    /\ (lexer_state = "Markup" /\ At(input, pos) \in Spaces) => out'.kind = "WS"

C36_WitnessAfterTag ==
    /\ pc = "done"
    /\ Len(tokens) = 3
    /\ tokens[1].kind = "Name"
    /\ tokens[2].kind = "EndTag"
    /\ tokens[3].kind = "Name"


-----------------------------------------------------------------------------
(* The DOCTYPE declaration in the token stream.                             *)

\* C33: at `<!DOCTYPE` next_token returns one DocType token, whose span runs
\* from just after the keyword to just before the `>` that closes the
\* declaration.
C33_DocTypeToken ==
    (pc = "next_token" /\ StartsWith(input, begin, DocTypeOpen) /\ DeclEnds # {}) =>
        /\ out.tag = "Ok"
        /\ out.kind = "DocType"
        /\ out.span = Span(DeclBody, Min(DeclEnds) - DeclBody)

\* What next_token does at `<!DOCTYPE`: it returns the `<` as the start of
\* a tag, and stays in Markup mode.
DocTypeReadAsTag ==
    (pc = "next_token" /\ StartsWith(input, begin, DocTypeOpen)) =>
        /\ out.tag = "Ok"
        /\ out.kind = "ElementOpenStartTag"
        /\ out.span = Span(begin, 1)
        /\ pos = begin + 1
        /\ lexer_state = "Markup"


-----------------------------------------------------------------------------
(* The order of the states of Reader.                                       *)

Rank(st) ==
    CASE st = "XmlDecl" -> 0
      [] st = "MiscBeforeElement" -> 1
      [] st = "RootElement" -> 2
      [] st = "Element" -> 3
      [] st = "MiscAfterElement" -> 4
      [] st = "Eof" -> 5

StateStep ==
    /\ Rank(read_state') >= Rank(read_state)
    /\ read_state = "Eof" =>
           /\ out'.tag = "OkNone"
           /\ read_state' = "Eof"
           /\ pos' = pos
           /\ lexer_state' = lexer_state
    /\ out'.tag = "Err" => read_state' = read_state

\* C37: no call of next_node moves the state backwards in the order XmlDecl,
\* MiscBeforeElement, RootElement, Element, MiscAfterElement, Eof; in Eof a
\* call returns Ok(None) and changes nothing; a call that returns Err leaves
\* the state as it was.
C37_StateOrder == [][StateStep]_vars

\* A reader in Eof over `<a/>` has returned Ok(None).
C37_Witness ==
    /\ read_state = "Eof"
    /\ input = <<"<", "a", "/", ">">>
    /\ out.tag = "OkNone"
    /\ pos = 0
    /\ pc = "ready"

\* `<?xml version'1.0'`: Err for the missing `=`, the state still XmlDecl.
C37_WitnessErr ==
    /\ read_state = "XmlDecl"
    /\ input = <<"<", "?", "x", "m", "l", " ", "v", "e", "r", "s", "i", "o", "n",
                 SQ, "1", ".", "0", SQ>>
    /\ out.tag = "Err" /\ out.err = "Expect" /\ out.expect = "Eq"
    /\ pc = "ready"


-----------------------------------------------------------------------------
(* The `=` of the XML declaration in the token stream.                      *)

\* The offset of the first character that is not whitespace, and the offset
\* after the `=` there and the whitespace that follows it.
EqStart == SkipWS(input, 0)
EqStop == SkipWS(input, EqStart + 1)

\* Optional whitespace, one `=`, optional whitespace, and no second `=`.
OneEq == At(input, EqStart) = "=" /\ At(input, EqStop) # "="

\* C35: expect_eq returns Ok exactly when the input has optional whitespace,
\* one `=` and optional whitespace, and then the cursor is just after them,
\* so that the next read returns the first token after the `=`.
C35_ExpectEq ==
    /\ pc = "expect_eq" =>
           /\ out.tag = "Ok" <=> OneEq
           /\ out.tag = "Ok" => pos = EqStop
    /\ pc = "next_token" => begin = EqStop

\* What expect_eq does: with whitespace after the `=` it stops there, and
\* without it the token after the `=`, if there is one and it is no `=` and
\* no lexer error, is read and dropped.
TokenAfterEqDropped ==
    (pc = "expect_eq" /\ At(input, EqStart) = "=" /\ out.tag = "Ok") =>
        IF EqStop > EqStart + 1 \/ EqStop = Len(input)
        THEN pos = EqStop
        ELSE pos > EqStop


-----------------------------------------------------------------------------
(* Writing a declaration and reading it back.                               *)

\* C31: the declaration write_xml_decl writes for (version, encoding,
\* standalone) is accepted by parse_xml_decl and parses to the same three
\* fields.
C31_DeclRoundTrip ==
    pc = "parse_xml_decl" =>
        /\ out.tag = "Ok"
        /\ out.val.version = shape.version
        /\ out.val.encoding = shape.encoding
        /\ out.val.standalone = shape.standalone

\* What happens: the version is written without quotes, and parse_xml_decl
\* fails on it with the Fatal Version(Quote) error at offset 14.
WrittenDeclRejected ==
    pc = "parse_xml_decl" =>
        /\ SubSeq(input, 1, 17) \in
               { <<"<", "?", "x", "m", "l", " ", "v", "e", "r", "s", "i", "o", "n", "=">> \o v :
                     v \in {<<"1", ".", "0">>, <<"1", ".", "1">>} }
        /\ out.tag = "Fatal"
        /\ out.err = "VersionQuote"
        /\ out.pos = 14

=============================================================================
